---- MODULE Spec2Model ----
(***************************************************************************)
(* Postgres-dumper: format detection -> parsing -> SQL compilation.        *)
(*                                                                         *)
(* Text is a sequence of one-character strings.  A ParseResult is a record *)
(* [headers, rows, errors, metadata]; a row is a function from header text *)
(* to a typed value [t, s] (t the JavaScript type of the value, s its      *)
(* text).  A JavaScript object keeps one value per key, so a row built     *)
(* from a header line that repeats a name has one entry for that name,     *)
(* holding the value assigned last.                                        *)
(***************************************************************************)
EXTENDS Integers, Sequences, FiniteSets, TLC

VARIABLES input, detected, result, sqlArgs, sqlOut, app, parser

vars == <<input, detected, result, sqlArgs, sqlOut, app, parser>>

(***************************************************************************)
(* Text helpers (JavaScript String methods)                                *)
(***************************************************************************)
Chars(str) == [i \in 1..Len(str) |-> SubSeq(str, i, i)]

SetMin(S) == CHOOSE x \in S : \A y \in S : x <= y
SetMax(S) == CHOOSE x \in S : \A y \in S : x >= y

\* a local constant: v is evaluated once and F applied to its value
Bind(v, F(_)) == CHOOSE y \in {F(x) : x \in {v}} : TRUE

WhiteSpace == {" ", "\n", "\t", "\r"}

\* String.prototype.trim
Trim(s) ==
  LET keep == {i \in 1..Len(s) : s[i] \notin WhiteSpace}
  IN  IF keep = {} THEN <<>> ELSE SubSeq(s, SetMin(keep), SetMax(keep))

\* String.prototype.includes for a one-character needle
Includes(s, c) == \E i \in 1..Len(s) : s[i] = c

\* number of occurrences of c: (s.match(/c/g) || []).length
CountChar(s, c) == Cardinality({i \in 1..Len(s) : s[i] = c})

\* String.prototype.split for a one-character separator: never an empty list
RECURSIVE SplitOn(_, _)
SplitOn(s, d) ==
  IF ~Includes(s, d) THEN <<s>>
  ELSE LET i == SetMin({j \in 1..Len(s) : s[j] = d})
       IN  <<SubSeq(s, 1, i - 1)>> \o SplitOn(SubSeq(s, i + 1, Len(s)), d)

\* Array.prototype.join for a one-character separator
RECURSIVE JoinWith(_, _)
JoinWith(parts, d) ==
  IF parts = <<>> THEN <<>>
  ELSE IF Len(parts) = 1 THEN parts[1]
  ELSE parts[1] \o <<d>> \o JoinWith(Tail(parts), d)

MapSeq(s, F(_)) == [i \in 1..Len(s) |-> F(s[i])]

Range(s) == {s[i] : i \in 1..Len(s)}

\* s.split('\n')
SplitLines(s) == SplitOn(s, "\n")

\* s.split(/\r?\n/): a carriage return right before a line feed goes with it
StripCR(seg) ==
  IF Len(seg) > 0 /\ seg[Len(seg)] = "\r" THEN SubSeq(seg, 1, Len(seg) - 1) ELSE seg
SplitCRLF(s) ==
  LET segs == SplitOn(s, "\n")
  IN  [i \in 1..Len(segs) |-> IF i < Len(segs) THEN StripCR(segs[i]) ELSE segs[i]]

NonBlank(line) == Trim(line) # <<>>

Digits == {"0", "1", "2", "3", "4", "5", "6", "7", "8", "9"}
AllDigits(s) == Len(s) > 0 /\ \A i \in 1..Len(s) : s[i] \in Digits

UpperCase == Chars("ABCDEFGHIJKLMNOPQRSTUVWXYZ")
LowerCase == Chars("abcdefghijklmnopqrstuvwxyz")
LowerOf(c) ==
  IF \E i \in 1..Len(UpperCase) : UpperCase[i] = c
  THEN LowerCase[CHOOSE i \in 1..Len(UpperCase) : UpperCase[i] = c]
  ELSE c
\* String.prototype.toLowerCase
ToLower(s) == [i \in 1..Len(s) |-> LowerOf(s[i])]

(***************************************************************************)
(* Typed values, parse errors, parse results                               *)
(***************************************************************************)
NullV == [t |-> "null", s |-> <<>>]
BoolV(b) == [t |-> "boolean", s |-> IF b THEN Chars("true") ELSE Chars("false")]
NumV(s) == [t |-> "number", s |-> s]
StrV(s) == [t |-> "string", s |-> s]

\* a ParseError; the message is its fixed text and the numbers put into it
Err(type, text, args, line) ==
  [type |-> type, message |-> [text |-> text, args |-> args], line |-> line]
NoLine == 0

\* sample values per column: the first SampleCount rows, nulls and '' dropped
SampleCount == 3
getSampleValues(rows, headers) ==
  Bind(SubSeq(rows, 1, IF Len(rows) < SampleCount THEN Len(rows) ELSE SampleCount),
       LAMBDA firstRows :
    [h \in Range(headers) |->
       SelectSeq([i \in 1..Len(firstRows) |-> firstRows[i][h]],
                 LAMBDA v : v # NullV /\ v # StrV(<<>>))])

EmptySamples == [h \in {} |-> <<>>]

ParseResultOf(headers, rows, errors, formatDetected, hasSeparatorRow, samples) ==
  [headers |-> headers, rows |-> rows, errors |-> errors,
   metadata |-> [rowCount |-> Len(rows), columnCount |-> Len(headers),
                 hasSeparatorRow |-> hasSeparatorRow,
                 formatDetected |-> formatDetected,
                 sampleValues |-> samples]]

\* canonical text of a JavaScript number written as -?digits(.digits)?
StripLeadingZeros(ds) ==
  LET nz == {i \in 1..Len(ds) : ds[i] # "0"}
  IN  IF nz = {} THEN <<"0">> ELSE SubSeq(ds, SetMin(nz), Len(ds))
StripTrailingZeros(ds) ==
  LET nz == {i \in 1..Len(ds) : ds[i] # "0"}
  IN  IF nz = {} THEN <<>> ELSE SubSeq(ds, 1, SetMax(nz))
CanonNumber(neg, intDigits, fracDigits) ==
  LET ip == StripLeadingZeros(intDigits)
      fp == StripTrailingZeros(fracDigits)
      body == IF fp = <<>> THEN ip ELSE ip \o <<".">> \o fp
  IN  IF neg /\ body # <<"0">> THEN <<"-">> \o body ELSE body

(***************************************************************************)
(* MarkdownTableParser                                                     *)
(***************************************************************************)
\* constructor: this.lines = input.trim().split('\n').map(line => line.trim())
MdLines(text) == MapSeq(SplitLines(Trim(text)), Trim)

\* lines are indexed from 0 in the source
At(lines, i) == lines[i + 1]

MdDetectFormat(lines) ==
  IF Len(lines) < 2 THEN "unknown"
  ELSE LET firstLine == At(lines, 0)
           secondLine == At(lines, 1)
       IN  IF Includes(firstLine, "+")
              /\ (Includes(firstLine, "-") \/ Includes(firstLine, "+"))   \* /[-+]+/
           THEN "grid"
           ELSE IF Includes(firstLine, "|")
           THEN (IF Includes(secondLine, "|")
                    /\ (Includes(secondLine, "-") \/ Includes(secondLine, ":"))
                 THEN "pipe" ELSE "minimal")
           ELSE "unknown"

\* cell.match(/^[-: ]+$/)
IsSeparatorCell(cell) ==
  Len(cell) > 0 /\ \A i \in 1..Len(cell) : cell[i] \in {"-", ":", " "}

StripLeadingPipe(s) ==
  IF Len(s) > 0 /\ s[1] = "|" THEN SubSeq(s, 2, Len(s)) ELSE s
StripTrailingPipe(s) ==
  IF Len(s) > 0 /\ s[Len(s)] = "|" THEN SubSeq(s, 1, Len(s) - 1) ELSE s

\* the marker that stands for an escaped pipe while the line is split; it is
\* one element here, so no input text contains it
tempMarker == "___PIPE___"

\* cleanLine.replace(/\\\|/g, tempMarker)
RECURSIVE MarkEscapedPipes(_)
MarkEscapedPipes(s) ==
  IF s = <<>> THEN <<>>
  ELSE IF Len(s) >= 2 /\ s[1] = "\\" /\ s[2] = "|"
       THEN <<tempMarker>> \o MarkEscapedPipes(SubSeq(s, 3, Len(s)))
       ELSE <<s[1]>> \o MarkEscapedPipes(Tail(s))

\* cell.replace(new RegExp(tempMarker, 'g'), '|')
UnmarkPipes(s) == [i \in 1..Len(s) |-> IF s[i] = tempMarker THEN "|" ELSE s[i]]

parsePipeLine(line) ==
  LET cleanLine == StripTrailingPipe(StripLeadingPipe(Trim(line)))
      escapedLine == MarkEscapedPipes(cleanLine)
      cells == MapSeq(SplitOn(escapedLine, "|"), LAMBDA cell : Trim(UnmarkPipes(cell)))
  IN  SelectSeq(cells, LAMBDA cell : ~IsSeparatorCell(cell))

isSeparatorRow(line) ==
  IF ~Includes(line, "|") THEN FALSE
  ELSE LET cleanLine == StripTrailingPipe(StripLeadingPipe(Trim(line)))
           cells == MapSeq(SplitOn(cleanLine, "|"), Trim)
       IN  \A i \in 1..Len(cells) : cells[i] = <<>> \/ IsSeparatorCell(cells[i])

\* /^-?\d+$/ and /^-?\d+\.\d+$/
IsIntText(s) ==
  \/ AllDigits(s)
  \/ Len(s) > 1 /\ s[1] = "-" /\ AllDigits(Tail(s))
IsFloatText(s) ==
  LET u == IF Len(s) > 0 /\ s[1] = "-" THEN Tail(s) ELSE s
      dots == {i \in 1..Len(u) : u[i] = "."}
  IN  /\ Cardinality(dots) = 1
      /\ LET d == SetMin(dots)
         IN  AllDigits(SubSeq(u, 1, d - 1)) /\ AllDigits(SubSeq(u, d + 1, Len(u)))

MdNumber(s) ==
  LET neg == s[1] = "-"
      u == IF neg THEN Tail(s) ELSE s
      dots == {i \in 1..Len(u) : u[i] = "."}
  IN  IF dots = {} THEN NumV(CanonNumber(neg, u, <<>>))
      ELSE LET d == SetMin(dots)
           IN  NumV(CanonNumber(neg, SubSeq(u, 1, d - 1), SubSeq(u, d + 1, Len(u))))

\* the number written by the two digits at positions i and i + 1
DigitValue(c) == CHOOSE n \in 0..9 : Chars("0123456789")[n + 1] = c
TwoDigits(s, i) == 10 * DigitValue(s[i]) + DigitValue(s[i + 1])

\* (Z|[+-]\d{2}:?\d{2})?$
IsZoneText(z) ==
  \/ z = <<>>
  \/ z = <<"Z">>
  \/ /\ Len(z) \in {5, 6} /\ z[1] \in {"+", "-"}
     /\ AllDigits(SubSeq(z, 2, 3))
     /\ AllDigits(SubSeq(z, Len(z) - 1, Len(z)))
     /\ Len(z) = 6 => z[4] = ":"

\* (\.\d+)? followed by the zone
IsFractionAndZone(r) ==
  \/ IsZoneText(r)
  \/ /\ Len(r) >= 2 /\ r[1] = "."
     /\ \E k \in 2..Len(r) : AllDigits(SubSeq(r, 2, k)) /\ IsZoneText(SubSeq(r, k + 1, Len(r)))

\* /^\d{4}-\d{2}-\d{2}(T\d{2}:\d{2}:\d{2}(\.\d+)?(Z|[+-]\d{2}:?\d{2})?)?$/
isoDateRegex(s) ==
  /\ Len(s) >= 10
  /\ AllDigits(SubSeq(s, 1, 4)) /\ s[5] = "-"
  /\ AllDigits(SubSeq(s, 6, 7)) /\ s[8] = "-"
  /\ AllDigits(SubSeq(s, 9, 10))
  /\ \/ Len(s) = 10
     \/ /\ Len(s) >= 19 /\ s[11] = "T"
        /\ AllDigits(SubSeq(s, 12, 13)) /\ s[14] = ":"
        /\ AllDigits(SubSeq(s, 15, 16)) /\ s[17] = ":"
        /\ AllDigits(SubSeq(s, 18, 19))
        /\ IsFractionAndZone(SubSeq(s, 20, Len(s)))

\* /^\d{2}\/\d{2}\/\d{4}$/, /^\d{4}\/\d{2}\/\d{2}$/, /^\d{2}-\d{2}-\d{4}$/
dateFormats(s) ==
  /\ Len(s) = 10
  /\ \/ /\ AllDigits(SubSeq(s, 1, 2)) /\ s[3] \in {"/", "-"} /\ AllDigits(SubSeq(s, 4, 5))
        /\ s[6] = s[3] /\ AllDigits(SubSeq(s, 7, 10))
     \/ /\ AllDigits(SubSeq(s, 1, 4)) /\ s[5] = "/" /\ AllDigits(SubSeq(s, 6, 7))
        /\ s[8] = "/" /\ AllDigits(SubSeq(s, 9, 10))

\* isNaN(new Date(s).getTime()) for a text of the ISO pattern: a month, day,
\* hour, minute or second out of range
IsInvalidDate(s) ==
  \/ TwoDigits(s, 6) \notin 1..12
  \/ TwoDigits(s, 9) \notin 1..31
  \/ /\ Len(s) > 10
     /\ \/ TwoDigits(s, 12) > 24
        \/ TwoDigits(s, 15) > 59
        \/ TwoDigits(s, 18) > 59

\* new Date(s).toISOString() for a date of the ISO pattern that is read as
\* UTC: a date alone is midnight UTC, a date-time ending in Z gets its
\* milliseconds written out.  The other texts (no zone, an offset, a
\* fraction, hour 24, days 29 to 31, the dateFormats) are encoded by the zone
\* of the host and its calendar; they are not among the texts parsed here.
toISOString(s) ==
  CASE Len(s) = 10 /\ isoDateRegex(s) /\ TwoDigits(s, 9) <= 28 ->
         s \o Chars("T00:00:00.000Z")
    [] Len(s) = 20 /\ isoDateRegex(s) /\ s[20] = "Z" /\ TwoDigits(s, 9) <= 28
         /\ TwoDigits(s, 12) <= 23 ->
         SubSeq(s, 1, 19) \o Chars(".000Z")

MdInferType(value) ==
  IF value = <<>> THEN NullV
  ELSE LET trimmed == Trim(value)
       IN  IF ToLower(trimmed) = Chars("true") THEN BoolV(TRUE)
           ELSE IF ToLower(trimmed) = Chars("false") THEN BoolV(FALSE)
           ELSE IF IsIntText(trimmed) \/ IsFloatText(trimmed) THEN MdNumber(trimmed)
           ELSE IF isoDateRegex(trimmed) /\ ~IsInvalidDate(trimmed)
           THEN StrV(toISOString(trimmed))
           ELSE IF dateFormats(trimmed) THEN StrV(toISOString(trimmed))
           ELSE StrV(value)

\* headers.forEach((header, index) => row[header] = inferType(values[index] or ''))
RowObject(headers, values, Infer(_)) ==
  [h \in Range(headers) |->
     LET index == SetMax({i \in 1..Len(headers) : headers[i] = h})
     IN  Infer(IF index <= Len(values) THEN values[index] ELSE <<>>)]

MdCreateRowObject(headers, values) == RowObject(headers, values, MdInferType)

adjustRowToHeaders(rowValues, expectedLength) ==
  IF Len(rowValues) = expectedLength THEN rowValues
  ELSE IF Len(rowValues) > expectedLength THEN SubSeq(rowValues, 1, expectedLength)
  ELSE rowValues \o [i \in 1..(expectedLength - Len(rowValues)) |-> <<>>]

\* an empty result that carries no error
MdCreateEmptyResultWithoutError(errorType, errorMessage, formatDetected) ==
  ParseResultOf(<<>>, <<>>, <<>>, formatDetected, FALSE, EmptySamples)

MdCreateEmptyResult(errorType, errorMessage, formatDetected) ==
  ParseResultOf(<<>>, <<>>, <<Err(errorType, errorMessage, <<>>, NoLine)>>,
                formatDetected, FALSE, EmptySamples)

MdCreateResult(headers, rows, errors, formatDetected, hasSeparatorRow) ==
  ParseResultOf(headers, rows, errors, formatDetected, hasSeparatorRow,
                getSampleValues(rows, headers))

\* the data-row loop of parsePipeTable, from line i on: [rows, errors]
RECURSIVE MdDataRows(_, _, _, _, _)
MdDataRows(lines, headers, dataStartIndex, i, acc) ==
  IF i >= Len(lines) THEN acc
  ELSE LET line == At(lines, i)
       IN  IF Trim(line) = <<>> \/ isSeparatorRow(line)
           THEN MdDataRows(lines, headers, dataStartIndex, i + 1, acc)
           ELSE LET rowValues == parsePipeLine(line)
                IN  IF Len(rowValues) # Len(headers)
                    THEN MdDataRows(lines, headers, dataStartIndex, i + 1,
                           [rows |-> Append(acc.rows,
                                       MdCreateRowObject(headers,
                                         adjustRowToHeaders(rowValues, Len(headers)))),
                            errors |-> Append(acc.errors,
                                       Err("column_mismatch", "Row has columns, expected",
                                           <<i - dataStartIndex + 1, Len(rowValues), Len(headers)>>,
                                           i + 1))])
                    ELSE MdDataRows(lines, headers, dataStartIndex, i + 1,
                           [rows |-> Append(acc.rows, MdCreateRowObject(headers, rowValues)),
                            errors |-> acc.errors])

parsePipeTable(lines) ==
  LET seps == {i \in 1..(Len(lines) - 1) : isSeparatorRow(At(lines, i))}
      found == seps # {}
      separatorIndex == IF found THEN SetMin(seps) ELSE 0
      errors0 == IF found THEN <<>>
                 ELSE <<Err("invalid_separator", "No separator row found (expected a row with |---|)",
                            <<>>, NoLine)>>
      headerLine == IF separatorIndex > 0 THEN At(lines, separatorIndex - 1) ELSE At(lines, 0)
      headers == parsePipeLine(headerLine)
  IN  IF Len(headers) = 0
      THEN MdCreateResult(headers, <<>>,
             Append(errors0, Err("malformed_row", "No valid headers found", <<>>,
                                 IF separatorIndex > 0 THEN separatorIndex ELSE 1)),
             "pipe", FALSE)
      ELSE LET out == MdDataRows(lines, headers, separatorIndex + 1, separatorIndex + 1,
                                 [rows |-> <<>>, errors |-> errors0])
           IN  MdCreateResult(headers, out.rows, out.errors, "pipe", separatorIndex > 0)

parseGridTable ==
  MdCreateEmptyResult("format_error", "Grid tables are not yet supported", "grid")

parseMinimalTable ==
  MdCreateEmptyResult("format_error", "Minimal tables are not yet supported", "minimal")

\* new MarkdownTableParser(text).parse()
MarkdownParse(text) ==
  LET lines == MdLines(text)
      format == MdDetectFormat(lines)
  IN  IF Len(lines) = 0
      THEN MdCreateEmptyResult("empty_table", "Input is empty", "unknown")
      ELSE CASE format = "pipe" -> parsePipeTable(lines)
             [] format = "grid" -> parseGridTable
             [] format = "minimal" -> parseMinimalTable
             [] OTHER -> MdCreateEmptyResult("format_error",
                                             "Unsupported markdown table format", "unknown")

(***************************************************************************)
(* CsvParser                                                               *)
(***************************************************************************)
\* the first line decides; tab, then pipe, then semicolon win a tie over comma
detectDelimiter(text) ==
  LET firstLine == SplitLines(text)[1]
      commas == CountChar(firstLine, ",")
      tabs == CountChar(firstLine, "\t")
      pipes == CountChar(firstLine, "|")
      semicolons == CountChar(firstLine, ";")
      max == SetMax({commas, tabs, pipes, semicolons})
  IN  IF max = 0 THEN ","
      ELSE IF max = tabs THEN "\t"
      ELSE IF max = pipes THEN "|"
      ELSE IF max = semicolons THEN ";"
      ELSE ","

\* the scanner of parseLine from character i on (1-based); st is
\* [values, currentValue, insideQuotes, bracketDepth, braceDepth]
RECURSIVE CsvScan(_, _, _, _)
CsvScan(line, delimiter, i, st) ==
  IF i > Len(line) THEN Append(st.values, st.currentValue)
  ELSE
    LET char == line[i]
        hasNext == i + 1 <= Len(line)
    IN  IF char = "\"" /\ st.bracketDepth = 0 /\ st.braceDepth = 0
        THEN IF st.insideQuotes /\ hasNext /\ line[i + 1] = "\""
             THEN CsvScan(line, delimiter, i + 2,
                          [st EXCEPT !.currentValue = Append(@, "\"")])
             ELSE CsvScan(line, delimiter, i + 1,
                          [st EXCEPT !.insideQuotes = ~@])
        ELSE IF char = "[" /\ ~st.insideQuotes
        THEN CsvScan(line, delimiter, i + 1,
                     [st EXCEPT !.bracketDepth = @ + 1, !.currentValue = Append(@, char)])
        ELSE IF char = "]" /\ ~st.insideQuotes
        THEN CsvScan(line, delimiter, i + 1,
                     [st EXCEPT !.bracketDepth = @ - 1, !.currentValue = Append(@, char)])
        ELSE IF char = "{" /\ ~st.insideQuotes
        THEN CsvScan(line, delimiter, i + 1,
                     [st EXCEPT !.braceDepth = @ + 1, !.currentValue = Append(@, char)])
        ELSE IF char = "}" /\ ~st.insideQuotes
        THEN CsvScan(line, delimiter, i + 1,
                     [st EXCEPT !.braceDepth = @ - 1, !.currentValue = Append(@, char)])
        ELSE IF char = delimiter /\ ~st.insideQuotes
                /\ st.bracketDepth = 0 /\ st.braceDepth = 0
        THEN CsvScan(line, delimiter, i + 1,
                     [st EXCEPT !.values = Append(@, st.currentValue), !.currentValue = <<>>])
        ELSE CsvScan(line, delimiter, i + 1,
                     [st EXCEPT !.currentValue = Append(@, char)])

\* a parseLine that pushes the last value only when it is not empty
parseLineDropsEmptyLast(line, delimiter) ==
  Bind(CsvScan(line, delimiter, 1,
               [values |-> <<>>, currentValue |-> <<>>, insideQuotes |-> FALSE,
                bracketDepth |-> 0, braceDepth |-> 0]), LAMBDA values :
    IF values[Len(values)] = <<>> THEN SubSeq(values, 1, Len(values) - 1) ELSE values)

parseLine(line, delimiter) ==
  CsvScan(line, delimiter, 1,
          [values |-> <<>>, currentValue |-> <<>>, insideQuotes |-> FALSE,
           bracketDepth |-> 0, braceDepth |-> 0])

\* Number(value) is not NaN, for text written as [+-]?(digits(.digits*)?|.digits+)
\* between optional white space (no exponent, hexadecimal or Infinity forms)
IsJsNumberText(value) ==
  LET t == Trim(value)
      u == IF Len(t) > 0 /\ t[1] \in {"-", "+"} THEN Tail(t) ELSE t
      dots == {i \in 1..Len(u) : u[i] = "."}
  IN  \/ t = <<>>
      \/ AllDigits(u)
      \/ /\ Cardinality(dots) = 1
         /\ LET d == SetMin(dots)
                ip == SubSeq(u, 1, d - 1)
                fp == SubSeq(u, d + 1, Len(u))
            IN  /\ ip = <<>> \/ AllDigits(ip)
                /\ fp = <<>> \/ AllDigits(fp)
                /\ ip # <<>> \/ fp # <<>>

JsNumber(value) ==
  LET t == Trim(value)
      neg == Len(t) > 0 /\ t[1] = "-"
      u == IF Len(t) > 0 /\ t[1] \in {"-", "+"} THEN Tail(t) ELSE t
      dots == {i \in 1..Len(u) : u[i] = "."}
  IN  IF t = <<>> THEN NumV(<<"0">>)
      ELSE IF dots = {} THEN NumV(CanonNumber(neg, u, <<>>))
      ELSE LET d == SetMin(dots)
           IN  NumV(CanonNumber(neg, SubSeq(u, 1, d - 1), SubSeq(u, d + 1, Len(u))))

CsvInferType(value) ==
  IF value = <<>> THEN NullV
  ELSE IF IsJsNumberText(value) /\ Trim(value) # <<>> THEN JsNumber(value)
  ELSE LET lower == Trim(ToLower(value))
       IN  IF lower = Chars("true") THEN BoolV(TRUE)
           ELSE IF lower = Chars("false") THEN BoolV(FALSE)
           ELSE StrV(value)

CsvCreateRowObject(headers, values) == RowObject(headers, values, CsvInferType)

adjustRow(values, expected) ==
  IF Len(values) > expected THEN SubSeq(values, 1, expected)
  ELSE values \o [i \in 1..(expected - Len(values)) |-> <<>>]

CsvCreateEmptyResult(type, message) ==
  ParseResultOf(<<>>, <<>>, <<Err(type, message, <<>>, NoLine)>>, "csv", FALSE, EmptySamples)

\* the data-line loop of parse, from line i on (0-based): [rows, errors]
RECURSIVE CsvDataRows(_, _, _, _, _)
CsvDataRows(lines, headers, delimiter, i, acc) ==
  IF i >= Len(lines) THEN acc
  ELSE LET line == At(lines, i)
           values == parseLine(line, delimiter)
       IN  IF Len(values) # Len(headers)
           THEN CsvDataRows(lines, headers, delimiter, i + 1,
                  [rows |-> Append(acc.rows,
                              CsvCreateRowObject(headers, adjustRow(values, Len(headers)))),
                   errors |-> Append(acc.errors,
                              Err("column_mismatch", "Row has columns, expected",
                                  <<i, Len(values), Len(headers)>>, i + 1))])
           ELSE CsvDataRows(lines, headers, delimiter, i + 1,
                  [rows |-> Append(acc.rows, CsvCreateRowObject(headers, values)),
                   errors |-> acc.errors])

\* parse() of a CsvParser whose parseErrors field holds parseErrors when it is
\* called: [result, parseErrors, shared]; shared tells that the errors of the
\* result are the array of the field (errors: this.parseErrors)
CsvParserParse(rawInput, delimiter, parseErrors) ==
  LET lines == SelectSeq(SplitCRLF(rawInput), NonBlank)
  IN  IF rawInput = <<>>
      THEN [result |-> CsvCreateEmptyResult("empty_table", "Input is empty"),
            parseErrors |-> parseErrors, shared |-> FALSE]
      ELSE IF Len(lines) = 0
      THEN [result |-> CsvCreateEmptyResult("empty_table", "Input contains no data"),
            parseErrors |-> parseErrors, shared |-> FALSE]
      ELSE LET headers == parseLine(At(lines, 0), delimiter)
           IN  IF Len(headers) = 0
               THEN [result |-> CsvCreateEmptyResult("format_error", "Could not parse headers"),
                     parseErrors |-> parseErrors, shared |-> FALSE]
               ELSE LET out == CsvDataRows(lines, headers, delimiter, 1,
                                           [rows |-> <<>>, errors |-> parseErrors])
                    IN  [result |-> ParseResultOf(headers, out.rows, out.errors, "csv", FALSE,
                                                  getSampleValues(out.rows, headers)),
                         parseErrors |-> out.errors, shared |-> TRUE]

\* new CsvParser(text).parse()
CsvParse(text) ==
  CsvParserParse(Trim(text), detectDelimiter(Trim(text)), <<>>).result

(***************************************************************************)
(* JSON values, JSON.parse and JSON.stringify (the JavaScript built-ins)   *)
(*                                                                         *)
(* A JSON value is [t, s, k, v]: t its type, s the text of a scalar, v the *)
(* items of an array or the member values of an object, k the member names *)
(* of an object in order.                                                  *)
(***************************************************************************)
JNull == [t |-> "null", s |-> <<>>, k |-> <<>>, v |-> <<>>]
JBool(b) == [t |-> "boolean", s |-> IF b THEN Chars("true") ELSE Chars("false"),
             k |-> <<>>, v |-> <<>>]
JNum(s) == [t |-> "number", s |-> s, k |-> <<>>, v |-> <<>>]
JStr(s) == [t |-> "string", s |-> s, k |-> <<>>, v |-> <<>>]
JArr(items) == [t |-> "array", s |-> <<>>, k |-> <<>>, v |-> items]
JObj(keys, vals) == [t |-> "object", s |-> <<>>, k |-> keys, v |-> vals]

\* typeof x === 'object' && x !== null (arrays included)
IsObjectLike(j) == j.t \in {"object", "array"}

\* obj[key] = val: a repeated member name keeps its first position
PutMember(obj, key, val) ==
  IF \E i \in 1..Len(obj.k) : obj.k[i] = key
  THEN LET i == CHOOSE i \in 1..Len(obj.k) : obj.k[i] = key
       IN  [obj EXCEPT !.v[i] = val]
  ELSE [obj EXCEPT !.k = Append(@, key), !.v = Append(@, val)]

JsonWs == {" ", "\n", "\t", "\r"}
RECURSIVE SkipWs(_, _)
SkipWs(s, i) ==
  IF i >= 1 /\ i <= Len(s) /\ s[i] \in JsonWs THEN SkipWs(s, i + 1) ELSE i

JFail == [ok |-> FALSE, pos |-> 0, val |-> JNull]
JOk(pos, val) == [ok |-> TRUE, pos |-> pos, val |-> val]

StartsWithAt(s, i, word) ==
  i + Len(word) - 1 <= Len(s) /\ SubSeq(s, i, i + Len(word) - 1) = word

\* a string body from i on (after the opening quote); \uXXXX is not modelled
RECURSIVE JStringBody(_, _, _)
JStringBody(s, i, acc) ==
  IF i > Len(s) THEN JFail
  ELSE IF s[i] = "\"" THEN JOk(i + 1, JStr(acc))
  ELSE IF s[i] \in {"\n", "\t", "\r"} THEN JFail
  ELSE IF s[i] = "\\"
       THEN IF i + 1 > Len(s) THEN JFail
            ELSE IF s[i + 1] \in {"\"", "\\", "/"}
                 THEN JStringBody(s, i + 2, Append(acc, s[i + 1]))
            ELSE IF s[i + 1] = "n" THEN JStringBody(s, i + 2, Append(acc, "\n"))
            ELSE IF s[i + 1] = "t" THEN JStringBody(s, i + 2, Append(acc, "\t"))
            ELSE IF s[i + 1] = "r" THEN JStringBody(s, i + 2, Append(acc, "\r"))
            ELSE JFail
  ELSE JStringBody(s, i + 1, Append(acc, s[i]))

\* -?(0|[1-9][0-9]*)(.[0-9]+)? ; exponents are not modelled
NumberChars == Digits \cup {"-", "."}
RECURSIVE NumberEnd(_, _)
NumberEnd(s, i) == IF i <= Len(s) /\ s[i] \in NumberChars THEN NumberEnd(s, i + 1) ELSE i
IsJsonNumber(tok) ==
  LET u == IF Len(tok) > 0 /\ tok[1] = "-" THEN Tail(tok) ELSE tok
      dots == {i \in 1..Len(u) : u[i] = "."}
      ip == IF dots = {} THEN u ELSE SubSeq(u, 1, SetMin(dots) - 1)
      fp == IF dots = {} THEN <<>> ELSE SubSeq(u, SetMin(dots) + 1, Len(u))
  IN  /\ Cardinality(dots) <= 1
      /\ AllDigits(ip) /\ (Len(ip) = 1 \/ ip[1] # "0")
      /\ dots # {} => AllDigits(fp)
JNumber(s, i) ==
  Bind(NumberEnd(s, i), LAMBDA e :
  Bind(SubSeq(s, i, e - 1), LAMBDA tok :
  Bind(IF tok[1] = "-" THEN Tail(tok) ELSE tok, LAMBDA u :
  Bind({j \in 1..Len(u) : u[j] = "."}, LAMBDA dots :
    IF ~IsJsonNumber(tok) THEN JFail
    ELSE IF dots = {} THEN JOk(e, JNum(CanonNumber(tok[1] = "-", u, <<>>)))
    ELSE JOk(e, JNum(CanonNumber(tok[1] = "-", SubSeq(u, 1, SetMin(dots) - 1),
                                 SubSeq(u, SetMin(dots) + 1, Len(u)))))))))

RECURSIVE JValue(_, _), JArrayItems(_, _, _), JObjectMembers(_, _, _)
JValue(s, i0) ==
  Bind(SkipWs(s, i0), LAMBDA i :
    IF i > Len(s) THEN JFail
    ELSE IF s[i] = "\"" THEN JStringBody(s, i + 1, <<>>)
    ELSE IF s[i] \in Digits \cup {"-"} THEN JNumber(s, i)
    ELSE IF StartsWithAt(s, i, Chars("true")) THEN JOk(i + 4, JBool(TRUE))
    ELSE IF StartsWithAt(s, i, Chars("false")) THEN JOk(i + 5, JBool(FALSE))
    ELSE IF StartsWithAt(s, i, Chars("null")) THEN JOk(i + 4, JNull)
    ELSE IF s[i] = "["
         THEN Bind(SkipWs(s, i + 1), LAMBDA j :
                IF j <= Len(s) /\ s[j] = "]" THEN JOk(j + 1, JArr(<<>>))
                ELSE JArrayItems(s, i + 1, <<>>))
    ELSE IF s[i] = "{"
         THEN Bind(SkipWs(s, i + 1), LAMBDA j :
                IF j <= Len(s) /\ s[j] = "}" THEN JOk(j + 1, JObj(<<>>, <<>>))
                ELSE JObjectMembers(s, i + 1, JObj(<<>>, <<>>)))
    ELSE JFail)

\* an item at i, then ',' and more items or ']'
JArrayItems(s, i, items) ==
  Bind(JValue(s, i), LAMBDA r :
  Bind(SkipWs(s, r.pos), LAMBDA j :
    IF ~r.ok \/ j > Len(s) THEN JFail
    ELSE IF s[j] = "]" THEN JOk(j + 1, JArr(Append(items, r.val)))
    ELSE IF s[j] = "," THEN JArrayItems(s, j + 1, Append(items, r.val))
    ELSE JFail))

\* a member "name": value at i, then ',' and more members or '}'
JObjectMembers(s, i, obj) ==
  Bind(SkipWs(s, i), LAMBDA n :
    IF n > Len(s) \/ s[n] # "\"" THEN JFail
    ELSE
      Bind(JStringBody(s, n + 1, <<>>), LAMBDA name :
      Bind(SkipWs(s, name.pos), LAMBDA c :
        IF ~name.ok \/ c > Len(s) \/ s[c] # ":" THEN JFail
        ELSE
          Bind(JValue(s, c + 1), LAMBDA r :
          Bind(SkipWs(s, r.pos), LAMBDA j :
            IF ~r.ok \/ j > Len(s) THEN JFail
            ELSE IF s[j] = "}"
                 THEN JOk(j + 1, PutMember(obj, name.val.s, r.val))
            ELSE IF s[j] = ","
                 THEN JObjectMembers(s, j + 1, PutMember(obj, name.val.s, r.val))
            ELSE JFail)))))

\* JSON.parse(text): [ok, val]; ok is FALSE where JSON.parse throws
JSONParse(text) ==
  Bind(JValue(text, 1), LAMBDA r :
    IF r.ok /\ SkipWs(text, r.pos) > Len(text) THEN r ELSE JFail)

RECURSIVE QuoteBody(_)
QuoteBody(s) ==
  IF s = <<>> THEN <<>>
  ELSE (CASE s[1] = "\"" -> <<"\\", "\"">>
          [] s[1] = "\\" -> <<"\\", "\\">>
          [] s[1] = "\n" -> <<"\\", "n">>
          [] s[1] = "\t" -> <<"\\", "t">>
          [] s[1] = "\r" -> <<"\\", "r">>
          [] OTHER -> <<s[1]>>) \o QuoteBody(Tail(s))
JsonQuote(s) == <<"\"">> \o QuoteBody(s) \o <<"\"">>

RECURSIVE Concat(_)
Concat(parts) == IF parts = <<>> THEN <<>> ELSE parts[1] \o Concat(Tail(parts))
JoinComma(parts) ==
  Concat([i \in 1..Len(parts) |-> IF i = 1 THEN parts[i] ELSE <<",">> \o parts[i]])

\* JSON.stringify(value)
RECURSIVE Stringify(_)
Stringify(j) ==
  CASE j.t = "string" -> JsonQuote(j.s)
    [] j.t = "array" ->
         <<"[">> \o JoinComma([i \in 1..Len(j.v) |-> Stringify(j.v[i])]) \o <<"]">>
    [] j.t = "object" ->
         <<"{">> \o JoinComma([i \in 1..Len(j.k) |->
                      JsonQuote(j.k[i]) \o <<":">> \o Stringify(j.v[i])]) \o <<"}">>
    [] OTHER -> IF j.t = "null" THEN Chars("null") ELSE j.s

(***************************************************************************)
(* JsonParser                                                              *)
(***************************************************************************)
JUndefined == [t |-> "undefined", s |-> <<>>, k |-> <<>>, v |-> <<>>]

\* UTF-16 code units of the characters used, for Array.prototype.sort
AsciiTable ==
  <<" ", "!", "\"", "#", "$", "%", "&", "'", "(", ")", "*", "+", ",", "-", ".", "/">>
  \o Chars("0123456789") \o <<":", ";", "<", "=", ">", "?", "@">>
  \o Chars("ABCDEFGHIJKLMNOPQRSTUVWXYZ") \o <<"[", "\\", "]", "^", "_", "grave-accent">>
  \o Chars("abcdefghijklmnopqrstuvwxyz") \o <<"{", "|", "}", "~">>
CharCode(c) ==
  CASE c = "\t" -> 9 [] c = "\n" -> 10 [] c = "\r" -> 13
    [] OTHER -> 31 + (CHOOSE i \in 1..Len(AsciiTable) : AsciiTable[i] = c)
LexLess(a, b) ==
  \/ Len(a) < Len(b) /\ SubSeq(b, 1, Len(a)) = a
  \/ \E i \in 1..(IF Len(a) < Len(b) THEN Len(a) ELSE Len(b)) :
        /\ SubSeq(a, 1, i - 1) = SubSeq(b, 1, i - 1)
        /\ CharCode(a[i]) < CharCode(b[i])
\* Array.from(keys).sort()
RECURSIVE SortKeys(_)
SortKeys(S) ==
  IF S = {} THEN <<>>
  ELSE LET m == CHOOSE x \in S : \A y \in S \ {x} : LexLess(x, y)
       IN  <<m>> \o SortKeys(S \ {m})

RECURSIVE IntText(_)
IntText(n) ==
  IF n < 10 THEN <<Chars("0123456789")[n + 1]>>
  ELSE IntText(n \div 10) \o <<Chars("0123456789")[(n % 10) + 1]>>

\* Object.keys(obj) and obj[key], for objects and arrays
KeysOf(j) == IF j.t = "array" THEN [i \in 1..Len(j.v) |-> IntText(i - 1)] ELSE j.k
Member(j, key) ==
  LET ks == KeysOf(j)
  IN  IF \E i \in 1..Len(ks) : ks[i] = key
      THEN j.v[CHOOSE i \in 1..Len(ks) : ks[i] = key]
      ELSE IF j.t = "array" /\ key = Chars("length") THEN JNum(IntText(Len(j.v)))
      ELSE JUndefined

\* the keys collectKeys(obj, prefix, keys) adds
RECURSIVE collectKeys(_, _)
collectKeys(obj, prefix) ==
  IF ~IsObjectLike(obj) THEN {}
  ELSE LET ks == KeysOf(obj)
       IN  UNION {LET key == ks[i]
                      fullKey == IF prefix # <<>> THEN prefix \o <<".">> \o key ELSE key
                      value == Member(obj, key)
                  IN  IF value.t = "object" THEN collectKeys(value, fullKey)
                      ELSE {fullKey} : i \in 1..Len(ks)}

extractHeaders(parsedData) ==
  IF Len(parsedData) = 0 THEN <<>>
  ELSE SortKeys(UNION {collectKeys(parsedData[i], <<>>) : i \in 1..Len(parsedData)})

\* the loop of getValueByPath over the parts of the path
RECURSIVE WalkPath(_, _)
WalkPath(current, parts) ==
  IF parts = <<>> THEN current
  ELSE IF ~IsObjectLike(current) THEN JUndefined
  ELSE WalkPath(Member(current, parts[1]), Tail(parts))

getValueByPath(obj, path) ==
  IF ~IsObjectLike(obj) THEN JUndefined ELSE WalkPath(obj, SplitOn(path, "."))

JsonInferType(value) ==
  CASE value.t \in {"null", "undefined"} -> NullV
    [] value.t = "string" -> StrV(value.s)
    [] value.t \in {"array", "object"} -> StrV(Stringify(value))
    [] value.t = "number" -> NumV(value.s)
    [] value.t = "boolean" -> BoolV(value.s = Chars("true"))

normalizeRow(row, headers) ==
  [h \in Range(headers) |->
     Bind(getValueByPath(row, h), LAMBDA val :
       IF val.t = "undefined" THEN NullV ELSE JsonInferType(val))]

\* parseNDJSON: the rows and errors of the non-blank lines, from line i on (0-based)
RECURSIVE NdjsonLines(_, _, _)
NdjsonLines(lines, i, acc) ==
  IF i >= Len(lines) THEN acc
  ELSE Bind(JSONParse(At(lines, i)), LAMBDA r :
         IF r.ok /\ IsObjectLike(r.val)
         THEN NdjsonLines(lines, i + 1, [acc EXCEPT !.rows = Append(@, r.val)])
         ELSE IF r.ok
         THEN NdjsonLines(lines, i + 1,
                [acc EXCEPT !.errors = Append(@,
                   Err("malformed_row", "Line is not a valid JSON object", <<i + 1>>, i + 1))])
         ELSE NdjsonLines(lines, i + 1,
                [acc EXCEPT !.errors = Append(@,
                   Err("format_error", "Invalid JSON on line", <<i + 1>>, i + 1))]))

\* a parseNDJSON that gives up every row as soon as one line fails
parseNDJSONAllOrNothing(rawInput, parsedData, parseErrors) ==
  Bind(SelectSeq(SplitLines(rawInput), NonBlank), LAMBDA lines :
  Bind(NdjsonLines(lines, 0, [rows |-> <<>>, errors |-> <<>>]), LAMBDA out :
    IF Len(out.errors) = 0
    THEN [parsedData |-> out.rows, parseErrors |-> out.errors, rebound |-> TRUE]
    ELSE [parsedData |-> parsedData, parseErrors |-> out.errors, rebound |-> TRUE]))

\* the parser's fields after parseNDJSON: [parsedData, parseErrors, rebound];
\* rebound tells that the field was set to a new array (this.parseErrors = errors)
parseNDJSON(rawInput, parsedData, parseErrors) ==
  Bind(SelectSeq(SplitLines(rawInput), NonBlank), LAMBDA lines :
  Bind(NdjsonLines(lines, 0, [rows |-> <<>>, errors |-> <<>>]), LAMBDA out :
    IF Len(out.rows) > 0
    THEN [parsedData |-> out.rows, parseErrors |-> out.errors, rebound |-> TRUE]
    ELSE IF Len(out.errors) = Len(lines)
    THEN [parsedData |-> parsedData, parseErrors |-> out.errors, rebound |-> TRUE]
    ELSE [parsedData |-> parsedData, parseErrors |-> parseErrors, rebound |-> FALSE]))

\* the parser's fields after parseInput: [parsedData, parseErrors, rebound]
parseInput(rawInput, parsedData, parseErrors) ==
  IF rawInput = <<>>
  THEN [parsedData |-> parsedData, parseErrors |-> parseErrors, rebound |-> FALSE]
  ELSE Bind(JSONParse(rawInput), LAMBDA r :
         IF r.ok
         THEN (IF r.val.t = "array"
               THEN [parsedData |-> r.val.v, parseErrors |-> parseErrors, rebound |-> FALSE]
               ELSE IF r.val.t = "object"
               THEN [parsedData |-> <<r.val>>, parseErrors |-> parseErrors, rebound |-> FALSE]
               ELSE [parsedData |-> parsedData, rebound |-> FALSE,
                     parseErrors |-> Append(parseErrors,
                        Err("format_error", "JSON input must be an array or an object",
                            <<>>, NoLine))])
         ELSE IF Includes(rawInput, "\n")
         THEN parseNDJSON(rawInput, parsedData, parseErrors)
         ELSE [parsedData |-> parsedData, rebound |-> FALSE,
               parseErrors |-> Append(parseErrors,
                  Err("format_error", "Invalid JSON", <<>>, NoLine))])

JsonCreateEmptyResult(errorType, errorMessage) ==
  ParseResultOf(<<>>, <<>>, <<Err(errorType, errorMessage, <<>>, NoLine)>>,
                "json", FALSE, EmptySamples)

\* parse() of a JsonParser whose fields hold parsedData and parseErrors when it
\* is called: [result, parsedData, parseErrors, rebound, shared]; shared tells
\* that the errors of the result are the array of the field
JsonParserParse(rawInput, parsedData, parseErrors) ==
  Bind(parseInput(rawInput, parsedData, parseErrors), LAMBDA st :
    IF Len(st.parsedData) = 0 /\ Len(st.parseErrors) = 0
    THEN [result |-> JsonCreateEmptyResult("empty_table", "Input is empty or invalid"),
          parsedData |-> st.parsedData, parseErrors |-> st.parseErrors,
          rebound |-> st.rebound, shared |-> FALSE]
    ELSE
      Bind(extractHeaders(st.parsedData), LAMBDA headers :
      Bind([i \in 1..Len(st.parsedData) |-> normalizeRow(st.parsedData[i], headers)],
           LAMBDA rows :
        [result |-> ParseResultOf(headers, rows, st.parseErrors, "json", FALSE,
                                  getSampleValues(rows, headers)),
         parsedData |-> st.parsedData, parseErrors |-> st.parseErrors,
         rebound |-> st.rebound, shared |-> TRUE])))

\* new JsonParser(text).parse()
JsonParse(text) == JsonParserParse(Trim(text), <<>>, <<>>).result

(***************************************************************************)
(* formatDetector                                                          *)
(***************************************************************************)
\* input.split('\n').filter(line => line.trim())
NonBlankLines(text) == SelectSeq(SplitLines(text), NonBlank)

isMarkdownTable(text) ==
  LET lines == NonBlankLines(text)
  IN  IF Len(lines) < 2 THEN FALSE
      ELSE IF ~Includes(At(lines, 0), "|") /\ ~Includes(At(lines, 0), "+") THEN FALSE
      ELSE LET r == MarkdownParse(text)
           IN  /\ Len(r.headers) > 0
               /\ \A i \in 1..Len(r.errors) :
                    r.errors[i].type # "malformed_row" /\ r.errors[i].type # "empty_table"

isJSON(text) ==
  LET trimmed == Trim(text)
  IN  IF trimmed = <<>> \/ trimmed[1] \notin {"[", "{"} THEN FALSE
      ELSE LET r == JSONParse(trimmed)
           IN  IF r.ok THEN IsObjectLike(r.val)
               ELSE IF Includes(trimmed, "\n")
               THEN LET lines == NonBlankLines(trimmed)
                    IN  /\ \A i \in 1..Len(lines) : JSONParse(lines[i]).ok
                        /\ Len(lines) > 0
               ELSE FALSE

\* consistencyRatio > 0.8, as a comparison of whole numbers
ConsistencyNum == 4
ConsistencyDen == 5

\* delimiters.sort((a, b) => b.count - a.count)[0]: the sort is stable, so the
\* first of ',', ';', tab, '|' among those with the highest count
PrimaryDelimiter(firstLine) ==
  LET order == <<",", ";", "\t", "|">>
      count(i) == CountChar(firstLine, order[i])
      best == CHOOSE i \in 1..Len(order) :
                /\ \A j \in 1..Len(order) : count(j) <= count(i)
                /\ \A j \in 1..(i - 1) : count(j) < count(i)
  IN  [char |-> order[best], count |-> count(best)]

\* the CSV check asking every non-blank line to have the columns of the first
isCSVEveryLine(text) ==
  LET lines == NonBlankLines(text)
  IN  IF Len(lines) < 2 THEN FALSE
      ELSE LET firstLine == At(lines, 0)
               primaryDelimiter == PrimaryDelimiter(firstLine)
               firstColCount == Len(SplitOn(firstLine, primaryDelimiter.char))
           IN  /\ primaryDelimiter.count > 0
               /\ firstColCount > 1
               /\ \A i \in 1..Len(lines) :
                    Len(SplitOn(lines[i], primaryDelimiter.char)) = firstColCount

isCSV(text) ==
  LET lines == NonBlankLines(text)
  IN  IF Len(lines) < 2 THEN FALSE
      ELSE LET firstLine == At(lines, 0)
               primaryDelimiter == PrimaryDelimiter(firstLine)
               firstColCount == Len(SplitOn(firstLine, primaryDelimiter.char))
               consistentLines ==
                 Cardinality({i \in 1..Len(lines) :
                                Len(SplitOn(lines[i], primaryDelimiter.char)) = firstColCount})
           IN  IF primaryDelimiter.count = 0 THEN FALSE
               ELSE /\ consistentLines * ConsistencyDen > ConsistencyNum * Len(lines)
                    /\ firstColCount > 1

\* the JSON check asked before the Markdown check
detectFormatJsonFirst(text) ==
  LET trimmed == Trim(text)
  IN  IF Len(trimmed) = 0 THEN "unknown"
      ELSE IF isJSON(trimmed) THEN "json"
      ELSE IF isMarkdownTable(trimmed) THEN "markdown"
      ELSE IF isCSV(trimmed) THEN "csv"
      ELSE "unknown"

detectFormat(text) ==
  LET trimmed == Trim(text)
  IN  IF Len(trimmed) = 0 THEN "unknown"
      ELSE IF isMarkdownTable(trimmed) THEN "markdown"
      ELSE IF isJSON(trimmed) THEN "json"
      ELSE IF isCSV(trimmed) THEN "csv"
      ELSE "unknown"

(***************************************************************************)
(* sqlGenerator                                                            *)
(***************************************************************************)
\* String.prototype.includes / startsWith / endsWith for a text
IncludesText(s, word) ==
  \E i \in 1..(Len(s) - Len(word) + 1) : SubSeq(s, i, i + Len(word) - 1) = word
StartsWith(s, c) == Len(s) > 0 /\ s[1] = c
EndsWith(s, c) == Len(s) > 0 /\ s[Len(s)] = c

\* parts.join(sep) for a separator of any length
JoinText(parts, sep) ==
  Concat([i \in 1..Len(parts) |-> IF i = 1 THEN parts[i] ELSE sep \o parts[i]])

\* row[name] where the row has no such key
UndefinedV == [t |-> "undefined", s |-> <<>>]
RowGet(row, name) == IF name \in DOMAIN row THEN row[name] ELSE UndefinedV

\* String(value)
JsStringOf(value) ==
  CASE value.t = "null" -> Chars("null")
    [] value.t = "undefined" -> Chars("undefined")
    [] OTHER -> value.s

\* Number(value): nan tells NaN, s is String(num) otherwise
ToNumber(value) ==
  CASE value.t = "number" -> [nan |-> FALSE, s |-> value.s]
    [] value.t = "boolean" ->
         [nan |-> FALSE, s |-> IF value.s = Chars("true") THEN <<"1">> ELSE <<"0">>]
    [] value.t = "string" ->
         IF IsJsNumberText(value.s) THEN [nan |-> FALSE, s |-> JsNumber(value.s).s]
         ELSE [nan |-> TRUE, s |-> Chars("NaN")]
    [] value.t = "null" -> [nan |-> FALSE, s |-> <<"0">>]
    [] OTHER -> [nan |-> TRUE, s |-> Chars("NaN")]

\* the text left as it is, its single quotes not doubled
EscapeQuotesDropped(s) == s

\* s.replace(/'/g, "''") and the quoted literal around it
EscapeQuotes(s) == Concat([i \in 1..Len(s) |-> IF s[i] = "'" THEN <<"'", "'">> ELSE <<s[i]>>])
Quoted(s) == <<"'">> \o EscapeQuotes(s) \o <<"'">>

\* the repair of a bracketed list that is not JSON: unquoted items get quotes
RepairArray(value) ==
  LET items == SplitOn(SubSeq(value, 2, Len(value) - 1), ",")
      jsonItems ==
        MapSeq(items, LAMBDA item :
          IF StartsWith(Trim(item), "\"") \/ StartsWith(Trim(item), "'") THEN Trim(item)
          ELSE <<"\"">>
               \o Concat([i \in 1..Len(Trim(item)) |->
                            IF Trim(item)[i] = "\"" THEN <<"\\", "\"">> ELSE <<Trim(item)[i]>>])
               \o <<"\"">>)
  IN  <<"[">> \o JoinText(jsonItems, <<",">>) \o <<"]">>

NumericTypeWords ==
  {Chars("int"), Chars("numeric"), Chars("float"), Chars("double"), Chars("decimal"),
   Chars("real")}
TruthyWords == {Chars("true"), Chars("1"), Chars("yes"), Chars("t"), Chars("y")}

formatValue(value, type) ==
  IF value.t \in {"null", "undefined"} THEN Chars("NULL")
  ELSE IF value.t = "string" /\ (value.s = <<>> \/ value.s = Chars("null")) THEN Chars("NULL")
  ELSE
    Bind(ToLower(type), LAMBDA typeLower :
      IF /\ IncludesText(typeLower, Chars("json")) \/ IncludesText(typeLower, Chars("[]"))
         /\ value.t = "string" /\ StartsWith(value.s, "[") /\ EndsWith(value.s, "]")
      THEN (IF JSONParse(value.s).ok THEN Quoted(value.s)
            ELSE Quoted(RepairArray(value.s)))
      ELSE IF \E w \in NumericTypeWords : IncludesText(typeLower, w)
      THEN (IF ToNumber(value).nan THEN Chars("NULL") ELSE ToNumber(value).s)
      ELSE IF IncludesText(typeLower, Chars("bool"))
      THEN (IF ToLower(JsStringOf(value)) \in TruthyWords THEN Chars("true")
            ELSE Chars("false"))
      ELSE Quoted(JsStringOf(value)))

\* mappings.filter(m => !m.isIgnored && m.targetTable); no table is the empty text
activeMappings(mappings) ==
  SelectSeq(mappings, LAMBDA m : ~m.isIgnored /\ m.targetTable # <<>>)

\* a property name that is an array index: enumerated first, in rising order
IsArrayIndex(name) ==
  /\ name # <<>> /\ AllDigits(name)
  /\ Len(name) = 1 \/ name[1] # "0"
  /\ Len(name) < 10 \/ (Len(name) = 10 /\ LexLess(name, Chars("4294967295")))
NumLess(a, b) == Len(a) < Len(b) \/ (Len(a) = Len(b) /\ LexLess(a, b))

\* the k-th smallest member of a set of numbers
RECURSIVE Kth(_, _)
Kth(S, k) == IF k = 1 THEN SetMin(S) ELSE Kth(S \ {SetMin(S)}, k - 1)

\* every mapping a statement of its own
tableGroupsPerMapping(active) ==
  [k \in 1..Len(active) |->
     [tableName |-> active[k].targetTable, tableMappings |-> <<active[k]>>]]

\* Object.entries(tableGroups): a table per distinct targetTable, index-like
\* names first in rising order, then the others in order of first appearance
tableGroups(active) ==
  Bind({i \in 1..Len(active) :
          \A j \in 1..(i - 1) : active[j].targetTable # active[i].targetTable},
       LAMBDA firsts :
  Bind({i \in firsts : IsArrayIndex(active[i].targetTable)}, LAMBDA indexLike :
  Bind([k \in 1..Cardinality(firsts) |->
          IF k <= Cardinality(indexLike)
          THEN CHOOSE i \in indexLike :
                 Cardinality({j \in indexLike :
                    NumLess(active[j].targetTable, active[i].targetTable)}) = k - 1
          ELSE Kth(firsts \ indexLike, k - Cardinality(indexLike))],
       LAMBDA order :
    [k \in 1..Len(order) |->
       [tableName |-> active[order[k]].targetTable,
        tableMappings |->
          SelectSeq(active, LAMBDA m : m.targetTable = active[order[k]].targetTable)]])))

\* the missing columns of every table, null ones included
tableMissingColsUnfiltered(missingColumns, tableName) == missingColumns

\* missingColumns.filter(mc => mc.tableName === tableName && mc.value !== null)
tableMissingCols(missingColumns, tableName) ==
  SelectSeq(missingColumns, LAMBDA mc : mc.tableName = tableName /\ mc.value.t # "null")

DoubleQuoted(name) == <<"\"">> \o name \o <<"\"">>

\* [...mappedColNames, ...missingColNames]
allColumnNames(tableMappings, missingCols) ==
  [i \in 1..Len(tableMappings) |-> DoubleQuoted(tableMappings[i].target)]
  \o [i \in 1..Len(missingCols) |-> DoubleQuoted(missingCols[i].columnName)]

NoLink == [targetColumn |-> <<>>, foreignTable |-> <<>>, foreignKey |-> <<>>, none |-> TRUE]
\* smartLinks.find(l => l.targetColumn === m.target)
FindLink(smartLinks, target) ==
  IF \E i \in 1..Len(smartLinks) : smartLinks[i].targetColumn = target
  THEN smartLinks[SetMin({i \in 1..Len(smartLinks) : smartLinks[i].targetColumn = target})]
  ELSE NoLink

\* the value of one mapped column of one row
mappedValue(row, m, smartLinks) ==
  Bind(FindLink(smartLinks, m.target), LAMBDA link :
  Bind(RowGet(row, m.source), LAMBDA val :
    IF ~link.none
    THEN (IF val.t \in {"null", "undefined"} \/ (val.t = "string" /\ val.s = <<>>)
          THEN Chars("NULL")
          ELSE Chars("(SELECT ") \o link.foreignKey \o Chars(" FROM ") \o link.foreignTable
               \o Chars(" WHERE ") \o link.foreignKey \o Chars(" = ")
               \o formatValue(val, Chars("string")) \o Chars(" LIMIT 1)"))
    ELSE formatValue(val, IF m.targetType # <<>> THEN m.targetType ELSE m.sourceType)))

\* [...mappedValues, ...missingValues] of one row
rowValues(row, tableMappings, missingCols, smartLinks) ==
  [i \in 1..Len(tableMappings) |-> mappedValue(row, tableMappings[i], smartLinks)]
  \o [i \in 1..Len(missingCols) |->
        formatValue(missingCols[i].value, missingCols[i].columnInfo.dataType)]

\* one element of sqlBlocks
sqlBlock(rows, group, missingColumns, smartLinks) ==
  Bind(tableMissingCols(missingColumns, group.tableName), LAMBDA missingCols :
    Chars("INSERT INTO ") \o group.tableName \o Chars(" (")
    \o JoinText(allColumnNames(group.tableMappings, missingCols), Chars(", "))
    \o Chars(") VALUES")
    \o JoinText([r \in 1..Len(rows) |->
                   Chars("\n  (")
                   \o JoinText(rowValues(rows[r], group.tableMappings, missingCols, smartLinks),
                               Chars(", "))
                   \o <<")">>],
                <<",">>)
    \o <<";">>)

NoneSelected == Chars("-- No tables/columns selected for import")

\* the statements written without the two guards before them
generateSqlUnguarded(data, mappings, smartLinks, missingColumns) ==
  Bind(tableGroups(activeMappings(mappings)), LAMBDA groups :
    JoinText([g \in 1..Len(groups) |->
                sqlBlock(data.rows, groups[g], missingColumns, smartLinks)],
             Chars("\n\n")))

generateSql(data, mappings, smartLinks, missingColumns) ==
  IF Len(data.rows) = 0 \/ Len(mappings) = 0 THEN <<>>
  ELSE IF Len(activeMappings(mappings)) = 0 THEN NoneSelected
  ELSE Bind(tableGroups(activeMappings(mappings)), LAMBDA groups :
         JoinText([g \in 1..Len(groups) |->
                     sqlBlock(data.rows, groups[g], missingColumns, smartLinks)],
                  Chars("\n\n")))

(***************************************************************************)
(* The texts given to the detector and the parsers: up to MaxLines lines,  *)
(* joined by line feeds, all drawn from one family of lines.               *)
(***************************************************************************)
MaxLines == 3

MarkdownLineSet ==
  { Chars("| a | b |"), Chars("|-|-|"), Chars("|1|x-y|"), Chars("|1|2|3|"),
    Chars("|-|5|"), Chars("|1|2|"), Chars("|a+b|a|"), Chars("|c\\|d||"), Chars(" "),
    Chars("|a|a|") }

CsvLineSet ==
  { Chars("a,b"), Chars("1,\"x,y\""), Chars("[1,2],3"), Chars(",2"), Chars("a,a"),
    Chars("x;y;z\r"), Chars("7"), Chars("a,b,c"), Chars("\"x,y\",1") }

JsonLineSet ==
  { Chars("[{\"a\":1},{\"a\":2,\"b\":\"x\"}]"), Chars("{\"a\":{\"b\":1},\"a.b\":\"\"}"),
    Chars("[\"a|b\","), Chars("\"-|-\"]"), Chars("{\"a\":\"\",\"c\":[]}"), Chars("5"),
    Chars("[{\"a\":{\"b\":2}},{\"a\":3}]") }

TextsOf(lineSet) ==
  UNION { {JoinWith(ls, "\n") : ls \in [1..n -> lineSet]} : n \in 0..MaxLines }

Inputs == TextsOf(MarkdownLineSet) \cup TextsOf(CsvLineSet) \cup TextsOf(JsonLineSet)

NoResult ==
  [by |-> "none", r |-> ParseResultOf(<<>>, <<>>, <<>>, "unknown", FALSE, EmptySamples)]
NoArgs ==
  [called |-> FALSE, step |-> "input", mappings |-> <<>>, smartLinks |-> <<>>,
   missingColumns |-> <<>>]

\* the state of App as useState sets it: step, mappings, missingColumns,
\* activeConnection (0 for null), isExecuting, executionResult and
\* columnsCache (a table name to its columns); invocations are the calls of
\* execute_sql and get_columns the backend has not answered yet, returned is
\* what the last fetchColumns call gave back
NoApp ==
  [step |-> "input", mappings |-> <<>>, missingColumns |-> <<>>,
   activeConnection |-> 0, isExecuting |-> FALSE, executionResult |-> "null",
   columnsCache |-> <<>>, invocations |-> <<>>,
   returned |-> [tableName |-> <<>>, columns |-> <<>>, from |-> "none"]]

\* no parser constructed yet.  A parser object holds its fields; arrays are
\* the ParseError arrays alive, parseErrors the one the parser's field refers
\* to, returned the results parse() has returned: each as it was on return
\* (result) with the array its errors field refers to (errors)
NoParser ==
  [kind |-> "none", rawInput |-> <<>>, parsedData |-> <<>>, parseErrors |-> 0,
   arrays |-> <<>>, returned |-> <<>>]

Init ==
  /\ input \in Inputs
  /\ detected = "none"
  /\ result = NoResult
  /\ sqlArgs = NoArgs
  /\ sqlOut = <<>>
  /\ app = NoApp
  /\ parser = NoParser

\* the detection effect of the input area: detectFormat(text)
DetectFormat ==
  /\ detected = "none"
  /\ detected' = detectFormat(input)
  /\ UNCHANGED <<input, result, sqlArgs, sqlOut, app, parser>>

\* new MarkdownTableParser(text).parse()
ParseMarkdown ==
  /\ detected # "none" /\ result.by = "none"
  /\ result' = [by |-> "markdown", r |-> MarkdownParse(input)]
  /\ UNCHANGED <<input, detected, sqlArgs, sqlOut, app, parser>>

\* new CsvParser(text).parse()
ParseCsv ==
  /\ detected # "none" /\ result.by = "none"
  /\ result' = [by |-> "csv", r |-> CsvParse(input)]
  /\ UNCHANGED <<input, detected, sqlArgs, sqlOut, app, parser>>

\* new JsonParser(text).parse()
ParseJson ==
  /\ detected # "none" /\ result.by = "none"
  /\ result' = [by |-> "json", r |-> JsonParse(input)]
  /\ UNCHANGED <<input, detected, sqlArgs, sqlOut, app, parser>>

Next == DetectFormat \/ ParseMarkdown \/ ParseCsv \/ ParseJson

Spec == Init /\ [][Next]_vars

(***************************************************************************)
(* SQL generation from a parsed text: the mapping step hands generateSql   *)
(* the ParseResult, one mapping per header, the smart links and the        *)
(* missing-column values.                                                  *)
(***************************************************************************)
SqlCases ==
  { [by |-> "csv", text |-> Chars("id,name\n1,O'Brien\n2,")],
    [by |-> "csv", text |-> Chars("id,name")],
    [by |-> "json", text |-> Chars("[{\"id\":\"7\",\"tags\":[\"a\",\"b\"]},{\"id\":\"x\",\"tags\":\"[a, b's]\"}]")],
    [by |-> "markdown", text |-> Chars("| id | ok |\n|-|-|\n| 7 | true |\n| 8 | null |")] }

ParseBy(by, text) ==
  CASE by = "csv" -> CsvParse(text)
    [] by = "json" -> JsonParse(text)
    [] by = "markdown" -> MarkdownParse(text)

TableChoices == {<<>>, Chars("users"), Chars("orders")}
TypeChoices ==
  { [sourceType |-> Chars("number"), targetType |-> <<>>],
    [sourceType |-> Chars("string"), targetType |-> Chars("integer")],
    [sourceType |-> Chars("string"), targetType |-> Chars("jsonb")] }

\* the mappings the mapping step can hold for a header
MappingChoices(header) ==
  { [source |-> header, target |-> target, targetTable |-> table, isIgnored |-> ignored,
     sourceType |-> types.sourceType, targetType |-> types.targetType] :
      target \in {header, Chars("ref_id")}, table \in TableChoices,
      ignored \in BOOLEAN, types \in TypeChoices }

MappingLists(headers) ==
  {<<>>} \cup {ms \in [1..Len(headers) -> UNION {MappingChoices(headers[i]) : i \in 1..Len(headers)}] :
                 \A i \in 1..Len(headers) : ms[i].source = headers[i]}

SmartLinkChoices ==
  { <<>>,
    <<[targetColumn |-> Chars("ref_id"), foreignTable |-> Chars("accounts"),
       foreignKey |-> Chars("id"), none |-> FALSE]>> }

MissingColumn(table, column, value, dataType) ==
  [tableName |-> Chars(table), columnName |-> Chars(column), value |-> value,
   columnInfo |-> [dataType |-> Chars(dataType)]]
MissingColumnChoices ==
  { <<>>,
    <<MissingColumn("users", "created_at", StrV(Chars("2024-01-01")), "timestamp"),
      MissingColumn("orders", "note", NullV, "text")>>,
    <<MissingColumn("orders", "note", StrV(Chars("it's")), "text"),
      MissingColumn("users", "age", StrV(Chars("41")), "integer")>> }

SqlInit ==
  /\ \E c \in SqlCases : input = c.text /\ result = [by |-> c.by, r |-> ParseBy(c.by, c.text)]
  /\ detected = "none"
  /\ sqlArgs = NoArgs
  /\ sqlOut = <<>>
  /\ app = NoApp
  /\ parser = NoParser

\* handleGenerateSql: generateSql(parseResult, mappings, undefined, smartLinks, missingColumns)
GenerateSql ==
  /\ ~sqlArgs.called
  /\ \E mappings \in MappingLists(result.r.headers), smartLinks \in SmartLinkChoices,
        missingColumns \in MissingColumnChoices :
       /\ sqlArgs' = [called |-> TRUE, step |-> "mapping", mappings |-> mappings,
                      smartLinks |-> smartLinks,
                      missingColumns |-> missingColumns]
       /\ sqlOut' = generateSql(result.r, mappings, smartLinks, missingColumns)
  /\ UNCHANGED <<input, detected, result, app, parser>>

SqlNext == GenerateSql

SqlSpec == SqlInit /\ [][SqlNext]_vars

(***************************************************************************)
(* The import workflow of App: input -> preview -> mapping ->              *)
(* missing-columns -> result.  The mapping step hands App its mappings,    *)
(* Continue diffs them against the columns of the destination tables, the  *)
(* missing-columns step collects a value for every column found missing.   *)
(***************************************************************************)
AppInputs ==
  { Chars("| id | name |\n|-|-|\n| 1 | O'Brien |"),
    Chars("[{\"id\":1,\"name\":\"x\"}]") }

\* a ColumnInfo as get_columns returns it
ColumnInfo(name, dataType, isNullable, isIdentity, columnDefault) ==
  [name |-> Chars(name), dataType |-> Chars(dataType), isNullable |-> isNullable,
   isAutoGenerated |-> FALSE, isGenerated |-> FALSE, isIdentity |-> isIdentity,
   columnDefault |-> Chars(columnDefault), isForeignKey |-> FALSE]

\* fetchColumns(tableName): the columns of the connected database
fetchColumns(tableName) ==
  CASE tableName = Chars("users") ->
         << ColumnInfo("id", "integer", FALSE, FALSE, ""),
            ColumnInfo("name", "text", FALSE, FALSE, ""),
            ColumnInfo("email", "text", TRUE, FALSE, "") >>
    [] tableName = Chars("orders") ->
         << ColumnInfo("id", "integer", FALSE, TRUE, ""),
            ColumnInfo("note", "text", FALSE, FALSE, ""),
            ColumnInfo("total", "numeric", FALSE, FALSE, "0") >>
    [] OTHER -> <<>>

\* the required columns of a table that no mapping of the group targets
requiredColumns(group) ==
  SelectSeq(fetchColumns(group.tableName), LAMBDA col :
    /\ col.isNullable = FALSE
    /\ ~col.isAutoGenerated /\ ~col.isGenerated /\ ~col.isIdentity
    /\ col.columnDefault = <<>>
    /\ \A i \in 1..Len(group.tableMappings) : group.tableMappings[i].target # col.name)

detectMissingColumns(mappings) ==
  Bind(tableGroups(SelectSeq(mappings, LAMBDA m :
         ~m.isIgnored /\ m.targetTable # <<>> /\ m.target # <<>>)),
       LAMBDA groups :
    Concat([g \in 1..Len(groups) |->
      Bind(requiredColumns(groups[g]), LAMBDA required :
        [c \in 1..Len(required) |->
           [tableName |-> groups[g].tableName, columnName |-> required[c].name,
            columnInfo |-> required[c], value |-> NullV,
            isForeignKey |-> required[c].isForeignKey]])]))

\* the mappings the mapping step reports: one per header, each with a table
\* or none, ignored or not
AppMappingLists(headers) ==
  {ms \in MappingLists(headers) :
     \A i \in 1..Len(ms) : ms[i].target = ms[i].source /\ ms[i].targetType = <<>>}

\* what the input of a missing column can hold
TypedValues == {<<>>, Chars("x")}

\* the Generate SQL button never disabled
GenerateNeverDisabled(missingColumns) == FALSE

\* disabled={missingColumns.some(mc => !mc.value)}
GenerateDisabled(missingColumns) ==
  \E i \in 1..Len(missingColumns) :
    missingColumns[i].value = NullV \/ missingColumns[i].value = StrV(<<>>)

AppInit ==
  /\ input \in AppInputs
  /\ detected = "none"
  /\ result = NoResult
  /\ sqlArgs = NoArgs
  /\ sqlOut = <<>>
  /\ app = NoApp
  /\ parser = NoParser

\* handleParse, called with the result of the parser the detected format selects
HandleParse ==
  /\ app.step = "input"
  /\ detectFormat(input) \in {"markdown", "json"}
  /\ result' = [by |-> detectFormat(input), r |-> ParseBy(detectFormat(input), input)]
  /\ app' = [app EXCEPT !.step = "preview"]
  /\ UNCHANGED <<input, detected, sqlArgs, sqlOut, parser>>

\* Continue to Mapping
ContinueToMapping ==
  /\ app.step = "preview"
  /\ app' = [app EXCEPT !.step = "mapping"]
  /\ UNCHANGED <<input, detected, result, sqlArgs, sqlOut, parser>>

\* Back, from the mapping step
BackToPreview ==
  /\ app.step = "mapping"
  /\ app' = [app EXCEPT !.step = "preview"]
  /\ UNCHANGED <<input, detected, result, sqlArgs, sqlOut, parser>>

\* handleMappingComplete(newMappings)
HandleMappingComplete ==
  /\ app.step = "mapping"
  /\ \E newMappings \in AppMappingLists(result.r.headers) :
       app' = [app EXCEPT !.mappings = newMappings]
  /\ UNCHANGED <<input, detected, result, sqlArgs, sqlOut, parser>>

\* handleGenerateSql: generateSql on the mappings, smart links and missing
\* columns App holds, then the result step
handleGenerateSql ==
  /\ result.by # "none"
  /\ sqlArgs' = [called |-> TRUE, step |-> app.step, mappings |-> app.mappings,
                 smartLinks |-> <<>>, missingColumns |-> app.missingColumns]
  /\ sqlOut' = generateSql(result.r, app.mappings, <<>>, app.missingColumns)
  /\ app' = [app EXCEPT !.step = "result"]

\* Continue, from the mapping step: handleProceedToMissingColumns
HandleProceedToMissingColumns ==
  /\ app.step = "mapping"
  /\ IF Len(detectMissingColumns(app.mappings)) = 0
     THEN handleGenerateSql
     ELSE /\ app' = [app EXCEPT !.missingColumns = detectMissingColumns(app.mappings),
                                !.step = "missing-columns"]
          /\ UNCHANGED <<sqlArgs, sqlOut>>
  /\ UNCHANGED <<input, detected, result, parser>>

\* MissingColumns.handleValueChange(index, value), handed to
\* handleMissingColumnsComplete
HandleValueChange ==
  /\ app.step = "missing-columns"
  /\ \E index \in 1..Len(app.missingColumns), value \in TypedValues :
       app' = [app EXCEPT !.missingColumns[index].value = StrV(value)]
  /\ UNCHANGED <<input, detected, result, sqlArgs, sqlOut, parser>>

\* Back to Mapping
BackToMapping ==
  /\ app.step = "missing-columns"
  /\ app' = [app EXCEPT !.step = "mapping"]
  /\ UNCHANGED <<input, detected, result, sqlArgs, sqlOut, parser>>

\* the Generate SQL button of the missing-columns step
GenerateSqlButton ==
  /\ app.step = "missing-columns"
  /\ ~GenerateDisabled(app.missingColumns)
  /\ handleGenerateSql
  /\ UNCHANGED <<input, detected, result, parser>>

\* handleReset: Input of the progress bar, Discard at the preview, New Import
\* at the result
HandleReset ==
  /\ app.step # "input"
  /\ app' = [app EXCEPT !.step = "input", !.mappings = <<>>, !.missingColumns = <<>>,
                        !.executionResult = "null"]
  /\ result' = NoResult
  /\ sqlArgs' = NoArgs
  /\ sqlOut' = <<>>
  /\ UNCHANGED <<input, detected, parser>>

AppNext ==
  \/ HandleParse \/ ContinueToMapping \/ BackToPreview \/ HandleMappingComplete
  \/ HandleProceedToMissingColumns \/ HandleValueChange \/ BackToMapping
  \/ GenerateSqlButton \/ HandleReset

AppSpec == AppInit /\ [][AppNext]_vars

(***************************************************************************)
(* A parser object and its parse() called more than once.  CsvParser and   *)
(* JsonParser keep their errors in a field (parseErrors) and return that   *)
(* array as the errors of the result; MarkdownTableParser keeps only the   *)
(* text and its lines.                                                     *)
(***************************************************************************)
MaxParses == 2

ParserInit ==
  /\ input \in Inputs
  /\ detected = "none"
  /\ result = NoResult
  /\ sqlArgs = NoArgs
  /\ sqlOut = <<>>
  /\ app = NoApp
  /\ parser = NoParser

\* new MarkdownTableParser(input)
NewMarkdownTableParser ==
  /\ parser.kind = "none"
  /\ parser' = [kind |-> "markdown", rawInput |-> Trim(input), parsedData |-> <<>>,
                parseErrors |-> 0, arrays |-> <<>>, returned |-> <<>>]
  /\ UNCHANGED <<input, detected, result, sqlArgs, sqlOut, app>>

\* new CsvParser(input): parseErrors = []
NewCsvParser ==
  /\ parser.kind = "none"
  /\ parser' = [kind |-> "csv", rawInput |-> Trim(input), parsedData |-> <<>>,
                parseErrors |-> 1, arrays |-> << <<>> >>, returned |-> <<>>]
  /\ UNCHANGED <<input, detected, result, sqlArgs, sqlOut, app>>

\* new JsonParser(input): parsedData = [], parseErrors = []
NewJsonParser ==
  /\ parser.kind = "none"
  /\ parser' = [kind |-> "json", rawInput |-> Trim(input), parsedData |-> <<>>,
                parseErrors |-> 1, arrays |-> << <<>> >>, returned |-> <<>>]
  /\ UNCHANGED <<input, detected, result, sqlArgs, sqlOut, app>>

\* parse() of the MarkdownTableParser: every list of the result is new
MarkdownParserParseCall ==
  /\ parser.kind = "markdown" /\ Len(parser.returned) < MaxParses
  /\ parser' =
       Bind(MarkdownParse(parser.rawInput), LAMBDA r :
         [parser EXCEPT !.arrays = Append(@, r.errors),
                        !.returned = Append(@, [result |-> r,
                                                errors |-> Len(parser.arrays) + 1])])
  /\ UNCHANGED <<input, detected, result, sqlArgs, sqlOut, app>>

\* parse() of the CsvParser
CsvParserParseCall ==
  /\ parser.kind = "csv" /\ Len(parser.returned) < MaxParses
  /\ parser' =
       Bind(CsvParserParse(parser.rawInput, detectDelimiter(parser.rawInput),
                           parser.arrays[parser.parseErrors]),
            LAMBDA out :
         IF out.shared
         THEN [parser EXCEPT !.arrays[parser.parseErrors] = out.parseErrors,
                             !.returned = Append(@, [result |-> out.result,
                                                     errors |-> parser.parseErrors])]
         ELSE [parser EXCEPT !.arrays = Append(@, out.result.errors),
                             !.returned = Append(@, [result |-> out.result,
                                                     errors |-> Len(parser.arrays) + 1])])
  /\ UNCHANGED <<input, detected, result, sqlArgs, sqlOut, app>>

\* parse() of the JsonParser
JsonParserParseCall ==
  /\ parser.kind = "json" /\ Len(parser.returned) < MaxParses
  /\ parser' =
       Bind(JsonParserParse(parser.rawInput, parser.parsedData,
                            parser.arrays[parser.parseErrors]),
            LAMBDA out :
       Bind(IF out.rebound THEN Append(parser.arrays, out.parseErrors)
            ELSE [parser.arrays EXCEPT ![parser.parseErrors] = out.parseErrors],
            LAMBDA arrays :
       Bind(IF out.rebound THEN Len(arrays) ELSE parser.parseErrors, LAMBDA field :
         [parser EXCEPT
            !.parsedData = out.parsedData,
            !.parseErrors = field,
            !.arrays = IF out.shared THEN arrays ELSE Append(arrays, out.result.errors),
            !.returned = Append(@, [result |-> out.result,
                                    errors |-> IF out.shared THEN field
                                               ELSE Len(arrays) + 1])])))
  /\ UNCHANGED <<input, detected, result, sqlArgs, sqlOut, app>>

ParserNext ==
  \/ NewMarkdownTableParser \/ NewCsvParser \/ NewJsonParser
  \/ MarkdownParserParseCall \/ CsvParserParseCall \/ JsonParserParseCall

ParserSpec == ParserInit /\ [][ParserNext]_vars

(***************************************************************************)
(* The detector on texts of up to MaxCsvLines lines of delimited text,     *)
(* long enough for a share of 80% of the lines to differ from all of them. *)
(***************************************************************************)
MaxCsvLines == 6

DelimitedLineSet == { Chars("a,b"), Chars("1,2"), Chars("7") }

DelimitedTexts ==
  UNION { {JoinWith(ls, "\n") : ls \in [1..n -> DelimitedLineSet]} : n \in 0..MaxCsvLines }

DetectInit ==
  /\ input \in DelimitedTexts
  /\ detected = "none"
  /\ result = NoResult
  /\ sqlArgs = NoArgs
  /\ sqlOut = <<>>
  /\ app = NoApp
  /\ parser = NoParser

DetectNext == DetectFormat

DetectSpec == DetectInit /\ [][DetectNext]_vars

(***************************************************************************)
(* CsvParser on single lines of up to MaxLineLen characters: the header    *)
(* line goes through parseLine, and its fields are the headers returned.   *)
(***************************************************************************)
MaxLineLen == 4

LineChars == {"a", ",", "\"", "[", "]", "{", "}"}

LineTexts == UNION { [1..n -> LineChars] : n \in 1..MaxLineLen }

LineInit ==
  /\ input \in LineTexts
  /\ detected = "none"
  /\ result = NoResult
  /\ sqlArgs = NoArgs
  /\ sqlOut = <<>>
  /\ app = NoApp
  /\ parser = NoParser

LineNext == DetectFormat \/ ParseCsv

LineSpec == LineInit /\ [][LineNext]_vars

(***************************************************************************)
(* The three parsers on a table of one column d and one row, whose cell is *)
(* a date, a date-time or another text.                                    *)
(***************************************************************************)
DateCells ==
  { Chars("2024-01-15"), Chars("1999-12-28"), Chars("2024-01-15T10:30:00Z"),
    Chars("2000-02-02T00:00:00Z"), Chars("2024-13-01"), Chars("2024-1-5"),
    Chars("2024-01-15T10:30"), Chars("20240115"), Chars("15"), Chars("true"),
    Chars("x"), Chars("abc") }

\* the one-cell table as the text each parser reads
CellText(by, cell) ==
  CASE by = "markdown" -> Chars("| d |\n|-|\n| ") \o cell \o Chars(" |")
    [] by = "csv" -> Chars("d\n") \o cell
    [] by = "json" -> Chars("[{\"d\":\"") \o cell \o Chars("\"}]")

DateInit ==
  /\ \E by \in {"markdown", "csv", "json"}, cell \in DateCells : input = CellText(by, cell)
  /\ detected = "none"
  /\ result = NoResult
  /\ sqlArgs = NoArgs
  /\ sqlOut = <<>>
  /\ app = NoApp
  /\ parser = NoParser

DateSpec == DateInit /\ [][Next]_vars

(***************************************************************************)
(* The input pipeline: SmartTextarea's effect on the debounced text, which *)
(* detects the format, runs the parser it has for it and hands the result  *)
(* to App.handleParse through onParseResult.  React runs a scheduled       *)
(* effect to its end, hence the weak fairness.                             *)
(***************************************************************************)
PipelineInit ==
  /\ input \in Inputs
  /\ detected = "none"
  /\ result = NoResult
  /\ sqlArgs = NoArgs
  /\ sqlOut = <<>>
  /\ app = NoApp
  /\ parser = NoParser

\* the detection effect: nothing for an empty text; parseMarkdown or parseJson
\* and onParseResult -> handleParse for markdown and json; setParseResult(null)
\* for csv and unknown
DetectionEffect ==
  /\ detected = "none"
  /\ input # <<>>
  /\ detected' = detectFormat(input)
  /\ IF detected' \in {"markdown", "json"} /\ Trim(input) # <<>>
     THEN /\ result' = [by |-> detected', r |-> ParseBy(detected', input)]
          /\ app' = [app EXCEPT !.step = "preview"]
     ELSE UNCHANGED <<result, app>>
  /\ UNCHANGED <<input, sqlArgs, sqlOut, parser>>

PipelineNext == DetectionEffect

\* the effect as seen on detected: a step that sets the format of a text that
\* is not empty.  Every such step of PipelineNext is a DetectionEffect step
\* and the two are enabled in the same states.
EffectRuns ==
  /\ detected = "none"
  /\ input # <<>>
  /\ detected' \in {"markdown", "json", "csv", "unknown"}

PipelineSpec == PipelineInit /\ [][PipelineNext]_vars /\ WF_detected(EffectRuns)

(***************************************************************************)
(* App and its database: the connection, Execute in DB, and fetchColumns   *)
(* with its cache.  App starts at the mapping step, its headers mapped to   *)
(* tables.  The backend answers an invocation at any later time, with      *)
(* success or with an error.  handleProceedToMissingColumns is an          *)
(* async function: it runs up to the await of a get_columns invocation and *)
(* goes on when the backend answers, all the while through the             *)
(* fetchColumns, mappings, missingColumns and parseResult of the render    *)
(* its click happened in.                                                  *)
(***************************************************************************)
MaxInvocations == 2
Connections == 1..2
TableNames == {Chars("users"), Chars("orders")}

\* what get_columns gives for a table over a connection: the two connections
\* lead to databases whose tables differ
get_columns(connection, tableName) ==
  IF connection = 1 THEN fetchColumns(tableName)
  ELSE << ColumnInfo("uuid", "text", FALSE, FALSE, "") >>

\* every header mapped to the column of its name in one of the tables
TableMappings(headers) ==
  {ms \in AppMappingLists(headers) :
     \A i \in 1..Len(ms) : ms[i].targetTable \in TableNames /\ ~ms[i].isIgnored}

\* what a render's functions hold of the state of App
NoClosure ==
  [columnsCache |-> <<>>, activeConnection |-> 0, mappings |-> <<>>,
   missingColumns |-> <<>>, parseResult |-> NoResult]

\* no detectMissingColumns awaits the invocation
NoRun == [closure |-> NoClosure, groups |-> <<>>, g |-> 0, missing |-> <<>>]

DbInit ==
  /\ input \in AppInputs
  /\ detected = "none"
  /\ result = [by |-> detectFormat(input), r |-> ParseBy(detectFormat(input), input)]
  /\ sqlArgs = NoArgs
  /\ sqlOut = <<>>
  /\ \E mappings \in TableMappings(result.r.headers) :
       app = [NoApp EXCEPT !.step = "mapping", !.mappings = mappings]
  /\ parser = NoParser

\* handleConnectionSaved(conn)
HandleConnectionSaved ==
  /\ \E conn \in Connections : app' = [app EXCEPT !.activeConnection = conn]
  /\ UNCHANGED <<input, detected, result, sqlArgs, sqlOut, parser>>

\* an Execute in DB button that is never disabled
ExecuteNeverDisabled(isExecuting) == FALSE

\* disabled={isExecuting}
ExecuteDisabled(isExecuting) == isExecuting

\* Execute in DB: shown at the result step under an active connection;
\* handleExecute returns at once without a connection or without SQL
HandleExecute ==
  /\ app.step = "result"
  /\ app.activeConnection # 0
  /\ ~ExecuteDisabled(app.isExecuting)
  /\ Len(app.invocations) < MaxInvocations
  /\ IF app.activeConnection = 0 \/ sqlOut = <<>>
     THEN UNCHANGED app
     ELSE app' = [app EXCEPT !.isExecuting = TRUE, !.executionResult = "null",
                             !.invocations = Append(@,
                                [command |-> "execute_sql",
                                 connection |-> app.activeConnection,
                                 tableName |-> <<>>, run |-> NoRun])]
  /\ UNCHANGED <<input, detected, result, sqlArgs, sqlOut, parser>>

\* a sequence without its i-th element
RemoveAt(s, i) == SubSeq(s, 1, i - 1) \o SubSeq(s, i + 1, Len(s))

\* execute_sql answers: setExecutionResult({success: true, ...}), then the
\* finally block
ExecuteSqlResolves ==
  /\ \E i \in 1..Len(app.invocations) :
       /\ app.invocations[i].command = "execute_sql"
       /\ app' = [app EXCEPT !.executionResult = "success", !.isExecuting = FALSE,
                             !.invocations = RemoveAt(@, i)]
  /\ UNCHANGED <<input, detected, result, sqlArgs, sqlOut, parser>>

\* execute_sql fails: setExecutionResult({success: false, ...}), then the
\* finally block
ExecuteSqlRejects ==
  /\ \E i \in 1..Len(app.invocations) :
       /\ app.invocations[i].command = "execute_sql"
       /\ app' = [app EXCEPT !.executionResult = "failure", !.isExecuting = FALSE,
                             !.invocations = RemoveAt(@, i)]
  /\ UNCHANGED <<input, detected, result, sqlArgs, sqlOut, parser>>

\* fetchColumns(tableName) of a render, up to its await: the cached columns,
\* the empty list without a connection, or an invocation of get_columns
FetchColumnsCall(closure, tableName) ==
  IF tableName \in DOMAIN closure.columnsCache
  THEN [tableName |-> tableName, columns |-> closure.columnsCache[tableName],
        from |-> "cache"]
  ELSE IF closure.activeConnection = 0
  THEN [tableName |-> tableName, columns |-> <<>>, from |-> "no-connection"]
  ELSE [tableName |-> tableName, columns |-> <<>>, from |-> "invoke"]

\* setColumnsCache(prev => ({...prev, [tableName]: columns}))
CacheWith(cache, tableName, columns) ==
  [t \in DOMAIN cache \cup {tableName} |-> IF t = tableName THEN columns ELSE cache[t]]

\* the missing columns a table adds: its required columns that no mapping of
\* the group targets
MissingOf(columns, group) ==
  Bind(SelectSeq(columns, LAMBDA col :
         /\ col.isNullable = FALSE
         /\ ~col.isAutoGenerated /\ ~col.isGenerated /\ ~col.isIdentity
         /\ col.columnDefault = <<>>
         /\ \A i \in 1..Len(group.tableMappings) :
              group.tableMappings[i].target # col.name),
       LAMBDA required :
    [c \in 1..Len(required) |->
       [tableName |-> group.tableName, columnName |-> required[c].name,
        columnInfo |-> required[c], value |-> NullV,
        isForeignKey |-> required[c].isForeignKey]])

\* the loop of detectMissingColumns from its g-th table on: up to the await
\* of a get_columns invocation, or to its end
RECURSIVE RunOn(_, _, _, _, _)
RunOn(closure, groups, g, missing, returned) ==
  IF g > Len(groups)
  THEN [done |-> TRUE, g |-> g, missing |-> missing, returned |-> returned]
  ELSE Bind(FetchColumnsCall(closure, groups[g].tableName), LAMBDA out :
         IF out.from = "invoke"
         THEN [done |-> FALSE, g |-> g, missing |-> missing, returned |-> returned]
         ELSE RunOn(closure, groups, g + 1,
                    missing \o MissingOf(out.columns, groups[g]), out))

\* handleProceedToMissingColumns going on from the g-th table, base being the
\* state of App the step has reached so far: a new invocation to await, or
\* the end, which is handleGenerateSql of the render of the click when
\* nothing is missing, and the missing-columns step otherwise
Proceed(base, closure, groups, g, missing) ==
  LET run == RunOn(closure, groups, g, missing, base.returned)
  IN
    IF ~run.done
    THEN /\ Len(base.invocations) < MaxInvocations
         /\ app' = [base EXCEPT
                      !.returned = run.returned,
                      !.invocations = Append(@,
                         [command |-> "get_columns",
                          connection |-> closure.activeConnection,
                          tableName |-> groups[run.g].tableName,
                          run |-> [closure |-> closure, groups |-> groups,
                                   g |-> run.g, missing |-> run.missing]])]
         /\ UNCHANGED <<sqlArgs, sqlOut>>
    ELSE IF Len(run.missing) = 0
    THEN /\ sqlArgs' = [called |-> TRUE, step |-> "mapping",
                        mappings |-> closure.mappings, smartLinks |-> <<>>,
                        missingColumns |-> closure.missingColumns]
         /\ sqlOut' = generateSql(closure.parseResult.r, closure.mappings, <<>>,
                                  closure.missingColumns)
         /\ app' = [base EXCEPT !.returned = run.returned, !.step = "result"]
    ELSE /\ app' = [base EXCEPT !.returned = run.returned,
                                !.missingColumns = run.missing,
                                !.step = "missing-columns"]
         /\ UNCHANGED <<sqlArgs, sqlOut>>

\* Continue, from the mapping step: handleProceedToMissingColumns up to its
\* first await of the backend
ContinueClicked ==
  /\ app.step = "mapping"
  /\ Proceed(app,
             [columnsCache |-> app.columnsCache,
              activeConnection |-> app.activeConnection,
              mappings |-> app.mappings, missingColumns |-> app.missingColumns,
              parseResult |-> result],
             tableGroups(SelectSeq(app.mappings, LAMBDA m :
               ~m.isIgnored /\ m.targetTable # <<>> /\ m.target # <<>>)),
             1, <<>>)
  /\ UNCHANGED <<input, detected, result, parser>>

\* get_columns answers: the columns are cached and returned, and the
\* detectMissingColumns that awaited them goes on
GetColumnsResolves ==
  /\ \E i \in 1..Len(app.invocations) :
       LET call == app.invocations[i]
           columns == get_columns(call.connection, call.tableName)
       IN  /\ call.command = "get_columns"
           /\ Proceed([app EXCEPT
                         !.columnsCache = CacheWith(@, call.tableName, columns),
                         !.returned = [tableName |-> call.tableName,
                                       columns |-> columns, from |-> "database"],
                         !.invocations = RemoveAt(@, i)],
                      call.run.closure, call.run.groups, call.run.g + 1,
                      call.run.missing
                        \o MissingOf(columns, call.run.groups[call.run.g]))
  /\ UNCHANGED <<input, detected, result, parser>>

\* get_columns fails: the catch block returns the empty list, and the
\* detectMissingColumns that awaited the columns goes on
GetColumnsRejects ==
  /\ \E i \in 1..Len(app.invocations) :
       LET call == app.invocations[i]
       IN  /\ call.command = "get_columns"
           /\ Proceed([app EXCEPT
                         !.returned = [tableName |-> call.tableName,
                                       columns |-> <<>>, from |-> "error"],
                         !.invocations = RemoveAt(@, i)],
                      call.run.closure, call.run.groups, call.run.g + 1,
                      call.run.missing)
  /\ UNCHANGED <<input, detected, result, parser>>

DbNext ==
  \/ HandleConnectionSaved
  \/ ContinueClicked \/ GetColumnsResolves \/ GetColumnsRejects \/ BackToMapping
  \/ HandleExecute \/ ExecuteSqlResolves \/ ExecuteSqlRejects \/ HandleReset

DbSpec == DbInit /\ [][DbNext]_vars

(***************************************************************************)
(* Properties of the parsers and of the detector, stated over the text of  *)
(* the state (input), the detector's answer (detected) and the ParseResult *)
(* of the parser that ran (result).                                        *)
(***************************************************************************)
\* the cells of a pipe-delimited line as written: outer pipes dropped, split
\* at the unescaped pipes, each cell trimmed
PipeCells(line) ==
  MapSeq(SplitOn(MarkEscapedPipes(StripTrailingPipe(StripLeadingPipe(Trim(line)))), "|"),
         LAMBDA cell : Trim(UnmarkPipes(cell)))

\* a separator row as the specification words it: a line with a pipe whose
\* cells are empty or made of '-', ':' and spaces
SeparatorLine(line) ==
  /\ Includes(line, "|")
  /\ \A i \in 1..Len(PipeCells(line)) :
        PipeCells(line)[i] = <<>> \/ IsSeparatorCell(PipeCells(line)[i])

DataLine(line) == Trim(line) # <<>> /\ ~SeparatorLine(line)

Distinct(s) == \A i, j \in 1..Len(s) : i # j => s[i] # s[j]

CountOfType(errors, type) == Cardinality({i \in 1..Len(errors) : errors[i].type = type})

\* C1: in every ParseResult of the three parsers each row has exactly the keys
\* listed in headers, and an empty cell is stored as null: no row holds the
\* empty string.
C1_RowKeysAreHeaders ==
  result.by # "none" =>
    \A i \in 1..Len(result.r.rows) :
      /\ DOMAIN result.r.rows[i] = Range(result.r.headers)
      /\ \A h \in DOMAIN result.r.rows[i] : result.r.rows[i][h] # StrV(<<>>)

\* C2: detectFormat answers markdown exactly when the Markdown check passes,
\* json exactly when it fails and the JSON check passes, csv exactly when both
\* fail and the CSV check passes, unknown exactly when all three fail; empty
\* or whitespace-only text gives unknown.
C2_StrictPriority ==
  detected # "none" =>
    LET t == Trim(input)
        md == isMarkdownTable(t)
        js == isJSON(t)
        cs == isCSV(t)
    IN  /\ detected \in {"markdown", "json", "csv", "unknown"}
        /\ (detected = "markdown") <=> md
        /\ (detected = "json") <=> (~md /\ js)
        /\ (detected = "csv") <=> (~md /\ ~js /\ cs)
        /\ (detected = "unknown") <=> (~md /\ ~js /\ ~cs)
        /\ t = <<>> => detected = "unknown"

\* a text that passes the Markdown check and the JSON check was answered markdown
C2_Witness ==
  detected = "markdown" /\ isJSON(Trim(input)) /\ isMarkdownTable(Trim(input))

\* header line, separator line, then data lines with the header's cell count
WellFormedPipeTable(lines) ==
  /\ Len(lines) >= 2
  /\ Includes(lines[1], "|") /\ DataLine(lines[1])
  /\ SeparatorLine(lines[2])
  /\ \A i \in 3..Len(lines) :
        DataLine(lines[i]) /\ Len(PipeCells(lines[i])) = Len(PipeCells(lines[1]))

\* C3: for a header of n cells, a separator row on the second line and k data
\* rows of n cells, MarkdownTableParser.parse returns the n header cells in
\* order, k rows, no errors and hasSeparatorRow = true.
C3_WellFormedPipeTableParses ==
  (result.by = "markdown" /\ WellFormedPipeTable(MdLines(input))) =>
    /\ result.r.headers = PipeCells(MdLines(input)[1])
    /\ Len(result.r.rows) = Len(MdLines(input)) - 2
    /\ result.r.errors = <<>>
    /\ result.r.metadata.hasSeparatorRow

\* the data lines of a pipe table: the non-blank, non-separator lines after the header
MdDataLineIndexes(lines) == {i \in 2..Len(lines) : DataLine(lines[i])}

\* the row a line of cells gives under the headers: cells beyond the header
\* count dropped, missing cells null
RowOfCells(headers, cells, Infer(_)) ==
  [h \in Range(headers) |->
     LET j == CHOOSE j \in 1..Len(headers) : headers[j] = h
     IN  IF j <= Len(cells) THEN Infer(cells[j]) ELSE NullV]

C4_Markdown ==
  LET lines == MdLines(input)
      n == Len(PipeCells(lines[1]))
      data == MdDataLineIndexes(lines)
  IN  (result.by = "markdown" /\ Includes(lines[1], "|") /\ DataLine(lines[1])) =>
        /\ Len(result.r.rows) = Cardinality(data)
        /\ CountOfType(result.r.errors, "column_mismatch")
             = Cardinality({i \in data : Len(PipeCells(lines[i])) # n})
        /\ (Distinct(PipeCells(lines[1])) /\ Len(result.r.rows) = Cardinality(data)) =>
             \A k \in 1..Cardinality(data) :
               result.r.rows[k] =
                 RowOfCells(PipeCells(lines[1]), PipeCells(lines[Kth(data, k)]), MdInferType)

C4_Csv ==
  LET text == Trim(input)
      lines == SelectSeq(SplitCRLF(text), NonBlank)
      delimiter == detectDelimiter(text)
      cells(i) == parseLine(lines[i], delimiter)
  IN  (result.by = "csv" /\ Len(lines) >= 1) =>
        /\ Len(result.r.rows) = Len(lines) - 1
        /\ CountOfType(result.r.errors, "column_mismatch")
             = Cardinality({i \in 2..Len(lines) : Len(cells(i)) # Len(cells(1))})
        /\ (Distinct(cells(1)) /\ Len(result.r.rows) = Len(lines) - 1) =>
             \A k \in 1..(Len(lines) - 1) :
               result.r.rows[k] = RowOfCells(cells(1), cells(k + 1), CsvInferType)

\* C4: in MarkdownTableParser and CsvParser the number of rows is the number
\* of data lines, the number of column_mismatch errors is the number of data
\* lines whose cell count differs from the header's, and each row keeps the
\* cells up to the header count with null for the missing ones.
C4_ColumnMismatchKeepsRows == C4_Markdown /\ C4_Csv

\* header line, then data lines with the header's cell count, no separator line
SeparatorlessPipeTable(lines) ==
  /\ Len(lines) >= 2
  /\ Includes(lines[1], "|")
  /\ \A i \in 1..Len(lines) :
        DataLine(lines[i]) /\ Len(PipeCells(lines[i])) = Len(PipeCells(lines[1]))

\* the table with a separator row put in after the header
WithSeparator(lines) ==
  JoinWith(<<lines[1], Chars("|---|")>> \o Tail(lines), "\n")

\* C5: for a pipe table without a separator row MarkdownTableParser.parse
\* returns the headers and rows of the same table with a separator row after
\* the header, exactly one invalid_separator error and hasSeparatorRow = false.
C5_SeparatorlessFallback ==
  (result.by = "markdown" /\ SeparatorlessPipeTable(MdLines(input))) =>
    /\ result.r.headers = MarkdownParse(WithSeparator(MdLines(input))).headers
    /\ result.r.rows = MarkdownParse(WithSeparator(MdLines(input))).rows
    /\ CountOfType(result.r.errors, "invalid_separator") = 1
    /\ ~result.r.metadata.hasSeparatorRow

\* C6: a text of two or more non-blank lines that is a pipe table with
\* consistent column counts and no separator row is detected as markdown.
C6_SeparatorlessDetectedMarkdown ==
  (detected # "none" /\ SeparatorlessPipeTable(MdLines(input))) =>
    detected = "markdown"

RECURSIVE FlatPairs(_, _)
FlatPairs(obj, prefix) ==
  UNION {LET fullKey == IF prefix = <<>> THEN obj.k[i] ELSE prefix \o <<".">> \o obj.k[i]
         IN  IF obj.v[i].t = "object" THEN FlatPairs(obj.v[i], fullKey)
             ELSE {<<fullKey, obj.v[i]>>} : i \in 1..Len(obj.k)}

\* C8: for a JSON array of objects JsonParser.parse returns the sorted union
\* of the dot-flattened keys of the elements as headers and one row per
\* element, in order, holding under every header the element's own value for
\* that key, or null where the element has no such key.
C8_JsonArrayOfObjects ==
  LET doc == JSONParse(Trim(input))
      elems == doc.val.v
      keys == UNION {{p[1] : p \in FlatPairs(elems[i], <<>>)} : i \in 1..Len(elems)}
      headers == result.r.headers
      rows == result.r.rows
  IN  (/\ result.by = "json"
       /\ doc.ok /\ doc.val.t = "array"
       /\ \A i \in 1..Len(elems) : elems[i].t = "object") =>
        /\ Range(headers) = keys
        /\ \A i, j \in 1..Len(headers) : i < j => LexLess(headers[i], headers[j])
        /\ Len(rows) = Len(elems)
        /\ \A i \in 1..Len(elems) :
             /\ DOMAIN rows[i] = keys
             /\ \A h \in keys :
                  LET own == {p[2] : p \in {q \in FlatPairs(elems[i], <<>>) : q[1] = h}}
                  IN  IF own = {} THEN rows[i][h] = NullV
                      ELSE rows[i][h] \in {JsonInferType(v) : v \in own}

(***************************************************************************)
(* Properties of the generated SQL, read back from the text in sqlOut.     *)
(***************************************************************************)
\* position i of the text lies outside every single-quoted literal
OutsideLiteral(text, i) == Cardinality({j \in 1..(i - 1) : text[j] = "'"}) % 2 = 0

\* where pat occurs in the text outside the literals
Occurrences(text, pat) ==
  {i \in 1..(Len(text) - Len(pat) + 1) :
     /\ text[i] = pat[1]
     /\ SubSeq(text, i, i + Len(pat) - 1) = pat
     /\ OutsideLiteral(text, i)}

\* the pieces of the text between the occurrences of sep outside the literals
SplitTop(text, sep) ==
  LET occ == Occurrences(text, sep)
      n == Cardinality(occ)
  IN  [k \in 1..(n + 1) |->
         SubSeq(text, IF k = 1 THEN 1 ELSE Kth(occ, k - 1) + Len(sep),
                      IF k = n + 1 THEN Len(text) ELSE Kth(occ, k) - 1)]

\* the statements of the output: the pieces between blank lines
Statements(text) == SplitTop(text, Chars("\n\n"))

\* INSERT INTO <table> (<columns>) VALUES<tuples>;
IsInsert(st) ==
  /\ Len(st) > 12
  /\ SubSeq(st, 1, 12) = Chars("INSERT INTO ")
  /\ Occurrences(st, Chars(" (")) # {}
  /\ Cardinality(Occurrences(st, Chars(") VALUES\n  ("))) = 1
  /\ Cardinality(Occurrences(st, Chars("INSERT INTO "))) = 1
  /\ SubSeq(st, Len(st) - 1, Len(st)) = Chars(");")
StmtTable(st) == SubSeq(st, 13, SetMin(Occurrences(st, Chars(" ("))) - 1)
StmtColumns(st) ==
  SplitTop(SubSeq(st, SetMin(Occurrences(st, Chars(" ("))) + 2,
                      SetMin(Occurrences(st, Chars(") VALUES\n  ("))) - 1),
           Chars(", "))
StmtTuples(st) ==
  SplitTop(SubSeq(st, SetMin(Occurrences(st, Chars(") VALUES\n  ("))) + 12, Len(st) - 2),
           Chars("),\n  ("))
TupleValues(tuple) == SplitTop(tuple, Chars(", "))

\* the destination tables of the mappings that are neither ignored nor without a table
ActiveTables(mappings) ==
  {mappings[i].targetTable :
     i \in {j \in 1..Len(mappings) : ~mappings[j].isIgnored /\ mappings[j].targetTable # <<>>}}

\* the active mappings of a table, in mapping order, and its missing columns with a value
MappingsOfTable(mappings, table) ==
  SelectSeq(mappings, LAMBDA m : ~m.isIgnored /\ m.targetTable = table)
MissingOfTable(missingColumns, table) ==
  SelectSeq(missingColumns, LAMBDA mc : mc.tableName = table /\ mc.value # NullV)

\* the values generateSql writes for a row of a table
ExpectedValues(row, table) ==
  LET ms == MappingsOfTable(sqlArgs.mappings, table)
      mcs == MissingOfTable(sqlArgs.missingColumns, table)
  IN  [j \in 1..(Len(ms) + Len(mcs)) |->
         IF j <= Len(ms) THEN mappedValue(row, ms[j], sqlArgs.smartLinks)
         ELSE formatValue(mcs[j - Len(ms)].value, mcs[j - Len(ms)].columnInfo.dataType)]

OneInsertPerTable ==
  LET sts == Statements(sqlOut)
      tables == ActiveTables(sqlArgs.mappings)
  IN  /\ Len(sts) = Cardinality(tables)
      /\ \A k \in 1..Len(sts) :
           /\ IsInsert(sts[k])
           /\ LET table == StmtTable(sts[k])
                  tuples == StmtTuples(sts[k])
              IN  /\ table \in tables
                  /\ \A l \in 1..Len(sts) : l # k => StmtTable(sts[l]) # table
                  /\ Len(tuples) = Len(result.r.rows)
                  /\ \A r \in 1..Len(result.r.rows) :
                       tuples[r] =
                         JoinText(ExpectedValues(result.r.rows[r], table), Chars(", "))
      /\ Occurrences(sqlOut, Chars("\n\n\n")) = {}

C10_ColumnListAndTuples ==
  (sqlArgs.called /\ ActiveTables(sqlArgs.mappings) # {} /\ Len(result.r.rows) > 0) =>
    \A k \in 1..Len(Statements(sqlOut)) :
      LET st == Statements(sqlOut)[k]
          table == StmtTable(st)
          columns == StmtColumns(st)
          tuples == StmtTuples(st)
          ms == MappingsOfTable(sqlArgs.mappings, table)
          mcs == MissingOfTable(sqlArgs.missingColumns, table)
      IN  /\ IsInsert(st)
          /\ columns =
               [j \in 1..(Len(ms) + Len(mcs)) |->
                  IF j <= Len(ms) THEN DoubleQuoted(ms[j].target)
                  ELSE DoubleQuoted(mcs[j - Len(ms)].columnName)]
          /\ \A r \in 1..Len(tuples) :
               LET values == TupleValues(tuples[r])
               IN  /\ Len(values) = Len(columns)
                   /\ r <= Len(result.r.rows) =>
                        values = ExpectedValues(result.r.rows[r], table)

\* a statement listing a mapped and a missing column while the missing-column
\* values also hold a null one and one of another table
C10_Witness ==
  /\ sqlArgs.called
  /\ Len(result.r.rows) > 0
  /\ Chars("users") \in ActiveTables(sqlArgs.mappings)
  /\ \E i, j \in 1..Len(sqlArgs.missingColumns) :
       /\ sqlArgs.missingColumns[i].tableName = Chars("users")
       /\ sqlArgs.missingColumns[i].value # NullV
       /\ sqlArgs.missingColumns[j].value = NullV
  /\ \E k \in 1..Len(Statements(sqlOut)) :
       /\ StmtTable(Statements(sqlOut)[k]) = Chars("users")
       /\ Len(StmtColumns(Statements(sqlOut)[k])) >= 2

\* the text of a row value when written as a string: String(value)
SourceText(val) ==
  CASE val.t = "null" -> Chars("null")
    [] val.t = "undefined" -> Chars("undefined")
    [] OTHER -> val.s

\* a value that is null, undefined or the empty string
IsBlankValue(val) == val.t \in {"null", "undefined"} \/ (val.t = "string" /\ val.s = <<>>)

\* a text in single quotes with every single quote of the value doubled
QuotedLiteralOf(text) ==
  <<"'">> \o Concat([i \in 1..Len(text) |-> IF text[i] = "'" THEN Chars("''") ELSE <<text[i]>>])
  \o <<"'">>

\* the first smart link that targets a destination column, if any
LinksTo(target) ==
  {i \in 1..Len(sqlArgs.smartLinks) : sqlArgs.smartLinks[i].targetColumn = target}

\* the value a smart-linked column is claimed to carry for a source value
ClaimedSubSelect(link, val) ==
  IF IsBlankValue(val) THEN Chars("NULL")
  ELSE Chars("(SELECT ") \o link.foreignKey \o Chars(" FROM ") \o link.foreignTable
       \o Chars(" WHERE ") \o link.foreignKey \o Chars(" = ")
       \o QuotedLiteralOf(SourceText(val)) \o Chars(" LIMIT 1)")

\* C11: for each source row and each mapped column whose destination column
\* is targeted by a SmartLink, the emitted value is the sub-select
\* (SELECT fk FROM table WHERE fk = '<source value, quotes doubled>' LIMIT 1),
\* and the bare NULL when the source value is null, undefined or empty.
C11_SmartLinkSubSelect ==
  (sqlArgs.called /\ ActiveTables(sqlArgs.mappings) # {} /\ Len(result.r.rows) > 0) =>
    \A k \in 1..Len(Statements(sqlOut)) :
      LET st == Statements(sqlOut)[k]
          ms == MappingsOfTable(sqlArgs.mappings, StmtTable(st))
          tuples == StmtTuples(st)
      IN  /\ IsInsert(st)
          /\ Len(tuples) = Len(result.r.rows)
          /\ \A r \in 1..Len(tuples) :
               LET values == TupleValues(tuples[r])
               IN  /\ Len(values) >= Len(ms)
                   /\ \A j \in 1..Len(ms) :
                        LinksTo(ms[j].target) # {} =>
                          values[j] =
                            ClaimedSubSelect(
                              sqlArgs.smartLinks[SetMin(LinksTo(ms[j].target))],
                              RowGet(result.r.rows[r], ms[j].source))

\* a body of a literal read back: every single quote must come doubled
RECURSIVE UnescapeBody(_)
UnescapeBody(b) ==
  IF b = <<>> THEN [ok |-> TRUE, s |-> <<>>]
  ELSE IF b[1] = "'"
  THEN (IF Len(b) >= 2 /\ b[2] = "'"
        THEN Bind(UnescapeBody(SubSeq(b, 3, Len(b))), LAMBDA rest :
               [ok |-> rest.ok, s |-> <<"'">> \o rest.s])
        ELSE [ok |-> FALSE, s |-> <<>>])
  ELSE Bind(UnescapeBody(Tail(b)), LAMBDA rest : [ok |-> rest.ok, s |-> <<b[1]>> \o rest.s])

\* v is a text in single quotes in which no single quote stands unpaired
IsLiteral(v) ==
  /\ Len(v) >= 2 /\ v[1] = "'" /\ v[Len(v)] = "'"
  /\ UnescapeBody(SubSeq(v, 2, Len(v) - 1)).ok
LiteralText(v) == UnescapeBody(SubSeq(v, 2, Len(v) - 1)).s

IsNullText(val) == IsBlankValue(val) \/ (val.t = "string" /\ val.s = Chars("null"))
Bracketed(s) == Len(s) >= 2 /\ s[1] = "[" /\ s[Len(s)] = "]"

\* an emitted literal is well quoted and reads back as the source value (as
\* the JSON list made of it, for a bracketed value)
LiteralCarries(v, val) ==
  /\ IsLiteral(v)
  /\ \/ LiteralText(v) = SourceText(val)
     \/ Bracketed(SourceText(val)) /\ Bracketed(LiteralText(v))

\* the source value and the smart link behind position j of a tuple of a table
ValueAt(row, table, j) ==
  LET ms == MappingsOfTable(sqlArgs.mappings, table)
      mcs == MissingOfTable(sqlArgs.missingColumns, table)
  IN  IF j <= Len(ms)
      THEN [val |-> RowGet(row, ms[j].source), links |-> LinksTo(ms[j].target)]
      ELSE [val |-> mcs[j - Len(ms)].value, links |-> {}]

SubSelectHead(link) ==
  Chars("(SELECT ") \o link.foreignKey \o Chars(" FROM ") \o link.foreignTable
  \o Chars(" WHERE ") \o link.foreignKey \o Chars(" = ")

\* the lookup value of an emitted sub-select
LookupValue(v, link) == SubSeq(v, Len(SubSelectHead(link)) + 1, Len(v) - 9)

\* what C12 asks of one emitted value
EmittedSafely(v, at) ==
  IF at.links # {} /\ ~IsBlankValue(at.val)
  THEN LET link == sqlArgs.smartLinks[SetMin(at.links)]
       IN  /\ Len(v) > Len(SubSelectHead(link)) + 9
           /\ IF IsNullText(at.val) THEN LookupValue(v, link) = Chars("NULL")
              ELSE LiteralCarries(LookupValue(v, link), at.val)
  ELSE IF IsNullText(at.val) THEN v = Chars("NULL")
  ELSE Len(v) > 0 /\ (v[1] = "'" => LiteralCarries(v, at.val))

\* C12: every value emitted as a string literal stands in single quotes with
\* each single quote of the value doubled - no quote of the literal is
\* unpaired, the literal reads back as the value, and the statement still
\* splits into one value per column - while null, undefined, the empty
\* string and the string 'null' are emitted as the bare keyword NULL.
C12_LiteralsEscaped ==
  (sqlArgs.called /\ ActiveTables(sqlArgs.mappings) # {} /\ Len(result.r.rows) > 0) =>
    /\ Cardinality({i \in 1..Len(sqlOut) : sqlOut[i] = "'"}) % 2 = 0
    /\ \A k \in 1..Len(Statements(sqlOut)) :
         LET st == Statements(sqlOut)[k] IN
         /\ IsInsert(st)
         /\ Len(StmtTuples(st)) = Len(result.r.rows)
         /\ \A r \in 1..Len(result.r.rows) :
              LET values == TupleValues(StmtTuples(st)[r]) IN
              /\ Len(values) = Len(StmtColumns(st))
              /\ Len(values) = Len(MappingsOfTable(sqlArgs.mappings, StmtTable(st)))
                               + Len(MissingOfTable(sqlArgs.missingColumns, StmtTable(st)))
              /\ \A j \in 1..Len(values) :
                   EmittedSafely(values[j], ValueAt(result.r.rows[r], StmtTable(st), j))

\* a statement holding a literal whose value has a single quote, a sub-select
\* with a quoted lookup value, and a bare NULL
C12_Witness ==
  /\ sqlArgs.called
  /\ \E k \in 1..Len(Statements(sqlOut)) :
       LET st == Statements(sqlOut)[k] IN
       /\ IsInsert(st)
       /\ \E r \in 1..Len(StmtTuples(st)) :
            LET values == TupleValues(StmtTuples(st)[r]) IN
            \E j \in 1..Len(values) :
              IsLiteral(values[j]) /\ "'" \in Range(LiteralText(values[j]))
       /\ \E r \in 1..Len(StmtTuples(st)) :
            LET values == TupleValues(StmtTuples(st)[r]) IN
            /\ \E j \in 1..Len(values) : values[j] = Chars("NULL")
            /\ \E j \in 1..Len(values) :
                 Len(values[j]) > 8 /\ SubSeq(values[j], 1, 8) = Chars("(SELECT ")

\* the output holds the word INSERT somewhere
HoldsInsert(text) ==
  \E i \in 1..(Len(text) - 5) : SubSeq(text, i, i + 5) = Chars("INSERT")

\* C13: generateSql returns the empty string whenever the ParseResult has no
\* rows or the mapping list is empty, and the single comment line
\* '-- No tables/columns selected for import' whenever there are rows and
\* mappings but every mapping is ignored or without a destination table; in
\* neither case does the output hold an INSERT.
C13_EmptyAndCommentOutputs ==
  sqlArgs.called =>
    /\ (Len(result.r.rows) = 0 \/ Len(sqlArgs.mappings) = 0) => sqlOut = <<>>
    /\ (Len(result.r.rows) > 0 /\ Len(sqlArgs.mappings) > 0
          /\ \A i \in 1..Len(sqlArgs.mappings) :
               sqlArgs.mappings[i].isIgnored \/ sqlArgs.mappings[i].targetTable = <<>>)
         => sqlOut = Chars("-- No tables/columns selected for import")
    /\ (Len(result.r.rows) = 0 \/ Len(sqlArgs.mappings) = 0
          \/ \A i \in 1..Len(sqlArgs.mappings) :
               sqlArgs.mappings[i].isIgnored \/ sqlArgs.mappings[i].targetTable = <<>>)
         => ~HoldsInsert(sqlOut)

\* no rows, yet a mapping that is active and has a table: the empty string
C13_Witness ==
  /\ sqlArgs.called
  /\ Len(result.r.rows) = 0
  /\ \E i \in 1..Len(sqlArgs.mappings) :
       ~sqlArgs.mappings[i].isIgnored /\ sqlArgs.mappings[i].targetTable # <<>>
  /\ sqlOut = <<>>

(***************************************************************************)
(* Properties of the import workflow                                       *)
(***************************************************************************)
\* a missing-column value names a column that an active mapping of the same
\* call already targets in the same table
AlreadyMapped(mc, mappings) ==
  \E i \in 1..Len(mappings) :
    /\ ~mappings[i].isIgnored /\ mappings[i].targetTable = mc.tableName
    /\ mappings[i].target = mc.columnName

\* C14: every call of generateSql receives missing-column values that are the
\* diff of the mappings of the same call against the schema - none names a
\* column an active mapping of the call targets in the same table - so no
\* emitted INSERT lists a destination column twice.
C14_MissingColumnsAreTheDiff ==
  sqlArgs.called =>
    /\ \A i \in 1..Len(sqlArgs.missingColumns) :
         ~AlreadyMapped(sqlArgs.missingColumns[i], sqlArgs.mappings)
    /\ \A k \in 1..Len(Statements(sqlOut)) :
         IsInsert(Statements(sqlOut)[k]) => Distinct(StmtColumns(Statements(sqlOut)[k]))

\* every listed missing column has a value: neither null nor the empty string
AllValuesGiven(missingColumns) ==
  \A i \in 1..Len(missingColumns) :
    missingColumns[i].value # NullV /\ missingColumns[i].value # StrV(<<>>)

ResultNow(i) ==
  [parser.returned[i].result EXCEPT !.errors = parser.arrays[parser.returned[i].errors]]

\* C16: parsing the same text twice yields equal ParseResults - headers, rows,
\* errors and metadata - with a new parser for each call and with parse()
\* called again on the same parser: every result parse() returns equals the
\* result of a new parser on that text.
C16_RepeatedParseEqual ==
  \A i \in 1..Len(parser.returned) :
    /\ parser.returned[i].result = ParseBy(parser.kind, input)
    /\ parser.returned[i].result = parser.returned[1].result

\* C17: once parse() has returned a result, no later call on the parser
\* changes its headers, rows or errors, and the result shares no list with
\* the parser or with a result returned earlier.
C17_ReturnedResultIsFrozen ==
  \A i \in 1..Len(parser.returned) :
    /\ ResultNow(i) = parser.returned[i].result
    /\ parser.returned[i].errors # parser.parseErrors
    /\ \A j \in 1..(i - 1) : parser.returned[j].errors # parser.returned[i].errors

(***************************************************************************)
(* Properties relating the detector and the CsvParser                      *)
(***************************************************************************)
\* C18: for an input that detectFormat classifies as csv, CsvParser on the
\* same input produces more than one header, and at least 80% of its data
\* rows have as many tokenized cells as there are headers: at most 20% of
\* the data rows raise column_mismatch.
C18_DetectorAgreesWithCsvParser ==
  (detected = "csv" /\ result.by = "csv") =>
    /\ Len(result.r.headers) > 1
    /\ 5 * (Len(result.r.rows) - CountOfType(result.r.errors, "column_mismatch"))
         >= 4 * Len(result.r.rows)

\* the non-blank lines of the trimmed input, the candidate delimiter found
\* most often in the first of them, and the lines that split into as many
\* columns as the first
TextLines == SelectSeq(SplitOn(Trim(input), "\n"), LAMBDA l : Trim(l) # <<>>)
Occurs(line, d) == Cardinality({i \in 1..Len(line) : line[i] = d})
MostFrequent(line) ==
  CHOOSE d \in {",", ";", "\t", "|"} :
    \A e \in {",", ";", "\t", "|"} : Occurs(line, e) <= Occurs(line, d)
ColumnsOf(line, d) == Occurs(line, d) + 1
SameColumns ==
  Cardinality({i \in 1..Len(TextLines) :
    ColumnsOf(TextLines[i], MostFrequent(TextLines[1]))
      = ColumnsOf(TextLines[1], MostFrequent(TextLines[1]))})

\* a text the Markdown and JSON checks do not match, with a delimiter in its
\* first line
DelimitedCandidate ==
  /\ detected # "none"
  /\ Len(TextLines) > 0
  /\ ~isMarkdownTable(Trim(input)) /\ ~isJSON(Trim(input))
  /\ Occurs(TextLines[1], MostFrequent(TextLines[1])) > 0
  /\ ColumnsOf(TextLines[1], MostFrequent(TextLines[1])) > 1

IsBlankText == Trim(input) = <<>>

\* the empty ParseResult whose only error is of type empty_table
IsEmptyTableResult(r) ==
  /\ r.headers = <<>> /\ r.rows = <<>>
  /\ r.metadata.rowCount = 0 /\ r.metadata.columnCount = 0
  /\ Len(r.errors) = 1
  /\ r.errors[1].type = "empty_table"

\* C20: for empty or whitespace-only text, parse() of each of the three
\* parsers returns an empty ParseResult (no headers, no rows, rowCount =
\* columnCount = 0) whose errors list holds exactly one entry, of type
\* empty_table.
C20_BlankTextIsEmptyTable ==
  (IsBlankText /\ result.by # "none") => IsEmptyTableResult(result.r)

\* no column name occurs twice in the sequence
PairwiseDistinct(names) ==
  \A i \in DOMAIN names : \A j \in DOMAIN names : names[i] = names[j] => i = j

\* C21: the headers of every ParseResult are pairwise distinct column names,
\* also when the header line of a Markdown table or of delimited text repeats
\* a column name.
C21_HeadersAreDistinct ==
  result.by # "none" => PairwiseDistinct(result.r.headers)

\* the whole text does not parse as JSON and holds a line feed: JsonParser
\* goes through the text line by line
NdjsonCase ==
  /\ result.by = "json"
  /\ ~JSONParse(Trim(input)).ok
  /\ Includes(Trim(input), "\n")

\* the non-blank lines of the text, and what each of them is by itself: a row
\* (it parses to a value whose typeof is object and that is not null), a
\* malformed_row (it parses to another value) or a format_error
NdLines == SelectSeq(SplitLines(Trim(input)), NonBlank)
LineOutcome(i) ==
  LET r == JSONParse(NdLines[i])
  IN  IF ~r.ok THEN "format_error"
      ELSE IF r.val.t \in {"object", "array"} THEN "row"
      ELSE "malformed_row"
Positions == [i \in 1..Len(NdLines) |-> i]
RowPositions == SelectSeq(Positions, LAMBDA i : LineOutcome(i) = "row")
ErrorPositions == SelectSeq(Positions, LAMBDA i : LineOutcome(i) # "row")

ParsableLines == Cardinality({i \in 1..Len(NdLines) : JSONParse(NdLines[i]).ok})

\* a text for the JSON check that starts like JSON, fails to parse as a whole
\* and has several lines of which most, but not all, parse by themselves
MostLinesParse ==
  /\ ~isMarkdownTable(input)
  /\ Trim(input) # <<>> /\ Trim(input)[1] \in {"[", "{"}
  /\ ~JSONParse(Trim(input)).ok
  /\ Includes(Trim(input), "\n")
  /\ ParsableLines < Len(NdLines)
  /\ 2 * ParsableLines > Len(NdLines)

\* C23: when the whole text fails to parse, the JSON check follows the
\* permissive NDJSON policy: a text of several lines of which most, but not
\* all, parse by themselves as JSON is still classified json.
C23_PartialNdjsonIsJson ==
  (detected # "none" /\ MostLinesParse) => detected = "json"

\* the sub-format as the rule reads: grid when the first line holds '+' and
\* '-', else pipe when the first line holds '|' and a later line is a valid
\* separator row, else minimal
RuleFormat(lines) ==
  IF Includes(lines[1], "+") /\ Includes(lines[1], "-") THEN "grid"
  ELSE IF /\ Includes(lines[1], "|")
          /\ \E i \in 2..Len(lines) : isSeparatorRow(lines[i])
  THEN "pipe"
  ELSE "minimal"

\* C24: MarkdownTableParser classifies a text (here: of two or more lines whose
\* first line holds '|') as grid exactly when the first line holds both '+'
\* and a run of '-', otherwise as pipe exactly when some later line is a valid
\* separator row, and otherwise as minimal.
C24_SubFormatRule ==
  (/\ result.by = "markdown"
   /\ Len(MdLines(input)) >= 2
   /\ Includes(MdLines(input)[1], "|")) =>
    MdDetectFormat(MdLines(input)) = RuleFormat(MdLines(input))

\* numeric coercion of a value: the bare number, NULL when it is not numeric
NumericCoercion(val) ==
  IF IsNullText(val) \/ ToNumber(val).nan THEN Chars("NULL") ELSE ToNumber(val).s

\* C25: a mapped column without a SmartLink that has no declared type and
\* whose inferred source type is number is emitted through numeric coercion:
\* an unquoted number, or NULL when the value is not numeric.
C25_InferredNumberIsCoerced ==
  (sqlArgs.called /\ ActiveTables(sqlArgs.mappings) # {} /\ Len(result.r.rows) > 0) =>
    \A k \in 1..Len(Statements(sqlOut)) :
      LET st == Statements(sqlOut)[k]
          ms == MappingsOfTable(sqlArgs.mappings, StmtTable(st))
          tuples == StmtTuples(st)
      IN  /\ IsInsert(st)
          /\ Len(tuples) = Len(result.r.rows)
          /\ \A r \in 1..Len(tuples) :
               LET values == TupleValues(tuples[r])
               IN  /\ Len(values) >= Len(ms)
                   /\ \A j \in 1..Len(ms) :
                        (/\ LinksTo(ms[j].target) = {}
                         /\ ms[j].targetType = <<>>
                         /\ ms[j].sourceType = Chars("number")) =>
                          values[j] = NumericCoercion(RowGet(result.r.rows[r], ms[j].source))

\* what each character of a line is to the tokenizer, read off the rule: "end"
\* for a delimiter met with the quotes closed and both depths zero, "quote"
\* for the first of a doubled quote inside quotes (one literal quote), "drop"
\* for its second and for a quote that opens or closes, "text" for the rest
RECURSIVE CharKinds(_, _, _, _, _, _)
CharKinds(line, delimiter, i, quoted, brackets, braces) ==
  IF i > Len(line) THEN <<>>
  ELSE IF line[i] = "\"" /\ brackets = 0 /\ braces = 0
  THEN (IF quoted /\ i < Len(line) /\ line[i + 1] = "\""
        THEN <<"quote", "drop">> \o CharKinds(line, delimiter, i + 2, quoted, brackets, braces)
        ELSE <<"drop">> \o CharKinds(line, delimiter, i + 1, ~quoted, brackets, braces))
  ELSE IF line[i] = delimiter /\ ~quoted /\ brackets = 0 /\ braces = 0
  THEN <<"end">> \o CharKinds(line, delimiter, i + 1, quoted, brackets, braces)
  ELSE <<"text">> \o
       CharKinds(line, delimiter, i + 1, quoted,
                 IF quoted THEN brackets
                 ELSE IF line[i] = "[" THEN brackets + 1
                 ELSE IF line[i] = "]" THEN brackets - 1 ELSE brackets,
                 IF quoted THEN braces
                 ELSE IF line[i] = "{" THEN braces + 1
                 ELSE IF line[i] = "}" THEN braces - 1 ELSE braces)

\* the header line of a one-line text and the kinds of its characters
HeaderLine == Trim(input)
HeaderKinds == CharKinds(HeaderLine, detectDelimiter(HeaderLine), 1, FALSE, 0, 0)
FieldEnds == {i \in 1..Len(HeaderLine) : HeaderKinds[i] = "end"}

\* the text between two positions of the line: the characters that are text
\* and one quote for every doubled quote
FieldBetween(from, to) ==
  LET keep == {i \in (from + 1)..(to - 1) : HeaderKinds[i] \in {"text", "quote"}}
  IN  [k \in 1..Cardinality(keep) |-> HeaderLine[Kth(keep, k)]]

\* the k-th field: from the (k-1)-th field end to the k-th, or to the line's end
RuleField(k) ==
  FieldBetween(IF k = 1 THEN 0 ELSE Kth(FieldEnds, k - 1),
               IF k > Cardinality(FieldEnds) THEN Len(HeaderLine) + 1
               ELSE Kth(FieldEnds, k))

\* C26: the tokenizer ends a field at a delimiter exactly when the quotes are
\* closed and the [ ] and { } depths are zero; the last field is always
\* emitted, so a line gives 1 + (number of such delimiters) fields and never
\* none; inside quotes a doubled quote gives one quote character and a
\* delimiter is kept as text of the cell.
C26_TokenizerFields ==
  (result.by = "csv" /\ HeaderLine # <<>>) =>
    /\ Len(result.r.headers) >= 1
    /\ Len(result.r.headers) = 1 + Cardinality(FieldEnds)
    /\ \A k \in 1..Len(result.r.headers) : result.r.headers[k] = RuleField(k)

\* the line [,], : a delimiter kept inside brackets, one that ends a field,
\* and an empty last field
C26_Witness ==
  /\ result.by = "csv"
  /\ input = Chars("[,],")
  /\ result.r.headers = <<Chars("[,]"), <<>>>>

\* C27: a cell whose text matches the ISO-8601 date or date-time pattern is
\* stored in the row as exactly the original text, by the type inference of
\* the Markdown, the delimited and the JSON parser alike.
C27_IsoDateKeptAsText ==
  \A cell \in DateCells :
    (/\ isoDateRegex(cell)
     /\ result.by # "none"
     /\ input = CellText(result.by, cell)) =>
      /\ Len(result.r.rows) = 1
      /\ RowGet(result.r.rows[1], Chars("d")) = StrV(cell)

\* C28: every debounced text that detectFormat classifies as markdown, json
\* or csv is passed to the matching parser and its ParseResult is eventually
\* delivered through onParseResult, so that the workflow leaves the input
\* step; in particular for a text classified as csv.
C28_ClassifiedTextIsDelivered ==
  (detected \in {"markdown", "json", "csv"}) ~>
    (result.by = detected /\ app.step = "preview")

\* the execute_sql invocations the backend has not answered yet
OutstandingExecutions(a) ==
  {i \in 1..Len(a.invocations) : a.invocations[i].command = "execute_sql"}

\* isExecuting is true exactly while an execute_sql invocation is outstanding,
\* and never more than one is
ExecutingWhileOutstanding(a) ==
  /\ a.isExecuting <=> OutstandingExecutions(a) # {}
  /\ Cardinality(OutstandingExecutions(a)) <= 1

\* C29: under DbSpec isExecuting is true exactly while an execute_sql
\* invocation is outstanding and at most one is outstanding at any time; a
\* step that starts an invocation starts from a state with isExecuting false,
\* an active connection and SQL that is not empty; a step that ends one
\* leaves isExecuting false and a success or a failure in executionResult.
C29_OneExecutionAtATime ==
  [][/\ ExecutingWhileOutstanding(app)
     /\ ExecutingWhileOutstanding(app')
     /\ Cardinality(OutstandingExecutions(app')) > Cardinality(OutstandingExecutions(app))
          => ~app.isExecuting /\ app.activeConnection # 0 /\ sqlOut # <<>>
     /\ Cardinality(OutstandingExecutions(app')) < Cardinality(OutstandingExecutions(app))
          => ~app'.isExecuting /\ app'.executionResult \in {"success", "failure"}]_vars

\* an execute_sql invocation is outstanding at the result step
C29_Witness ==
  /\ app.isExecuting
  /\ Cardinality(OutstandingExecutions(app)) = 1
  /\ app.step = "result"
  /\ sqlOut # <<>>

\* the get_columns invocations a step adds: those in flight after it more
\* often than before it
NewGetColumns ==
  {k \in 1..Len(app'.invocations) :
     /\ app'.invocations[k].command = "get_columns"
     /\ Cardinality({j \in 1..Len(app'.invocations) :
                       app'.invocations[j] = app'.invocations[k]})
          > Cardinality({j \in 1..Len(app.invocations) :
                          app.invocations[j] = app'.invocations[k]})}

\* no step takes a table out of the cache
CacheKeepsTables == DOMAIN app.columnsCache \subseteq DOMAIN app'.columnsCache

\* no step asks the database for the columns of a table the cache holds
CachedIsNotAsked ==
  \A k \in NewGetColumns : app'.invocations[k].tableName \notin DOMAIN app.columnsCache

\* a fetchColumns that returns from the cache returns the entry of the cache
CachedIsReturned ==
  app'.returned # app.returned /\ app'.returned.from = "cache"
    => /\ app'.returned.tableName \in DOMAIN app'.columnsCache
       /\ app'.returned.columns = app'.columnsCache[app'.returned.tableName]

\* a fetchColumns that failed or had no connection returns the empty list, and
\* the cache changes only by the columns a get_columns invocation answers with
FailureCachesNothing ==
  /\ app'.returned # app.returned /\ app'.returned.from \in {"error", "no-connection"}
       => app'.returned.columns = <<>>
  /\ app'.columnsCache # app.columnsCache
       => \E i \in 1..Len(app.invocations) :
            /\ app.invocations[i].command = "get_columns"
            /\ app'.columnsCache =
                 CacheWith(app.columnsCache, app.invocations[i].tableName,
                           get_columns(app.invocations[i].connection,
                                       app.invocations[i].tableName))
            /\ Len(app'.invocations) <= Len(app.invocations)

\* C30: under DbSpec the column cache never loses a table, whatever the step
\* (a new connection and a reset included); no step asks the database for the
\* columns of a table the cache holds, and a fetchColumns that returns from
\* the cache returns the cached entry; a failed fetch and a fetch without a
\* connection return the empty list and cache nothing.
C30_CacheIsNeverInvalidated ==
  [][CacheKeepsTables /\ CachedIsNotAsked /\ CachedIsReturned
       /\ FailureCachesNothing]_vars
====
